---------------------------- MODULE Spec2Model ----------------------------
(***************************************************************************)
(* A model of the mastering engine (backend/app/services/                  *)
(* mastering_engine.py) and of the rule-based genre classifier             *)
(* (backend/app/services/audio_analyzer.py).                               *)
(*                                                                         *)
(* Samples and gains are exact rationals <<n, d>> (d > 0, lowest terms):   *)
(* the floating-point rounding of numpy is not represented.  Audio buffers *)
(* are records [ndim, ch]: ndim is len(audio.shape) and ch the sequence of *)
(* rows (one row for a 1-D array).                                         *)
(***************************************************************************)
EXTENDS Integers, Sequences, FiniteSets, TLC

VARIABLES
    pc,               \* the position in the call being followed
    audio_data,       \* the buffer passed in by the caller
    settings,         \* the settings dictionary passed in by the caller
    processed_audio,  \* the buffer being processed, then returned
    gain_reduction,   \* the limiter's smoothed gain, one sequence per row
    stages,           \* the stages applied so far, in order
    outcome,          \* "none", "returned" or "raised"
    logged,           \* the stages whose exception was caught and logged
    features,         \* the features the genre classifier extracted
    genre_scores,     \* the classifier's additive scores
    prediction,       \* the classifier's result
    track,            \* the audio file given to the analyzer
    analysis,         \* the analyzer's local values, then its result
    progress,         \* the calls made to progress_callback, in order
    cancel_at,        \* the phases started when the task was cancelled
    louder,           \* the scaled copy of a buffer and its compressed form
    request,          \* a request to an endpoint, or the arguments of a call
    response,         \* the endpoint's response, or the value returned
    heap,             \* the arrays allocated, by object identity
    arg_ref,          \* the array object the caller passed in
    ret_ref,          \* the array object returned to the caller
    database,         \* the database: the tracks and mastering_sessions rows
    files,            \* the paths of the files in the upload directory
    workers           \* the background tasks, each with its local values

vars == <<pc, audio_data, settings, processed_audio, gain_reduction, stages,
          outcome, logged, features, genre_scores, prediction, track,
          analysis, progress, cancel_at, louder, request, response, heap,
          arg_ref, ret_ref, database, files,
          workers>>

\* the state of the web application
serverVars == <<database, files, workers>>

ServerIdle ==
    /\ database = <<>>
    /\ files = {}
    /\ workers = <<>>

\* the state of the analyzer, of the preset endpoint and of the array
\* objects, untouched by the calls of the mastering engine alone
otherVars == <<track, analysis, progress, cancel_at, louder, request,
               response, heap, arg_ref, ret_ref>>

OthersIdle ==
    /\ track = <<>>
    /\ analysis = <<>>
    /\ progress = <<>>
    /\ cancel_at = -1
    /\ louder = <<>>
    /\ request = <<>>
    /\ response = <<>>
    /\ heap = <<>>
    /\ arg_ref = 0
    /\ ret_ref = 0

(***************************************************************************)
(* Bounds of the model.                                                    *)
(***************************************************************************)
\* longest channel, in samples
MaxLen == 3
\* input samples are k / Unit for k in -MaxAmp .. MaxAmp
MaxAmp == 5
\* the sample value 1.0 (full scale) is Unit / Unit
Unit == 4
\* MasteringEngine(sample_rate): a low rate keeps attack/release sample
\* counts small; the code's default is 44100
sample_rate == 500

(***************************************************************************)
(* Exact rational arithmetic.                                              *)
(***************************************************************************)
Abs(n) == IF n < 0 THEN -n ELSE n

Sign(n) == IF n < 0 THEN -1 ELSE IF n > 0 THEN 1 ELSE 0

Max2(a, b) == IF a >= b THEN a ELSE b

Min2(a, b) == IF a <= b THEN a ELSE b

RECURSIVE GCD(_, _)
GCD(a, b) == IF b = 0 THEN a ELSE GCD(b, a % b)

Rat(n, d) ==
    LET s == IF d < 0 THEN -1 ELSE 1
        g == GCD(Abs(n), Abs(d))
    IN  <<(s * n) \div g, (s * d) \div g>>

RInt(k) == <<k, 1>>
RZero == <<0, 1>>
ROne == <<1, 1>>

\* the operations divide out common factors before they multiply, to keep
\* the intermediate integers small
RAdd(a, b) ==
    LET g == GCD(a[2], b[2])
    IN  Rat(a[1] * (b[2] \div g) + b[1] * (a[2] \div g), (a[2] \div g) * b[2])
RSub(a, b) == RAdd(a, <<-b[1], b[2]>>)
RMul(a, b) ==
    LET g1 == GCD(Abs(a[1]), b[2])
        g2 == GCD(Abs(b[1]), a[2])
    IN  IF a[1] = 0 \/ b[1] = 0 THEN <<0, 1>>
        ELSE <<(a[1] \div g1) * (b[1] \div g2), (a[2] \div g2) * (b[2] \div g1)>>
RDiv(a, b) == RMul(a, <<Sign(b[1]) * b[2], Abs(b[1])>>)
RNeg(a) == <<-a[1], a[2]>>
RAbs(a) == <<Abs(a[1]), a[2]>>
RLt(a, b) ==
    LET g == GCD(a[2], b[2])
    IN  a[1] * (b[2] \div g) < b[1] * (a[2] \div g)
RLe(a, b) ==
    LET g == GCD(a[2], b[2])
    IN  a[1] * (b[2] \div g) <= b[1] * (a[2] \div g)
RMin(a, b) == IF RLe(a, b) THEN a ELSE b
RSign(a) == RInt(Sign(a[1]))

(***************************************************************************)
(* Audio buffers.                                                          *)
(***************************************************************************)
\* the input samples: k / Unit
Samples == {Rat(k, Unit) : k \in -MaxAmp .. MaxAmp}

\* a few samples spanning the range, for buffers with two rows
CoarseSamples == {Rat(k, Unit) : k \in {-MaxAmp, -1, 0, 2, MaxAmp}}

SeqsOf(S, n) == [1 .. n -> S]

Channels == UNION {SeqsOf(Samples, n) : n \in 1 .. MaxLen}

\* np.ndarray of shape (n,)
Mono1D(c) == [ndim |-> 1, ch |-> <<c>>]

\* np.ndarray of shape (rows, n)
Array2D(rows) == [ndim |-> 2, ch |-> rows]

\* audio.shape[0] of a 2-D array
Rows(a) == Len(a.ch)

EmptyBuffer == [ndim |-> 1, ch |-> <<>>]

(***************************************************************************)
(* Settings dictionaries are functions from keys to values; a value is a   *)
(* rational, or None (JSON null / a non-numeric value), on which numpy     *)
(* arithmetic raises TypeError.                                            *)
(***************************************************************************)
None == <<0, 0>>

IsNumber(v) == v[2] # 0

\* dict.get(key, default)
Get(d, key, default) == IF key \in DOMAIN d THEN d[key] ELSE default

\* a dict with the given keys left out
Without(d, keys) == [k \in DOMAIN d \ keys |-> d[k]]

(***************************************************************************)
(* Decibels.  10 ** (db / 20) doubles every 6.02 dB; the model takes the   *)
(* doubling at 6 dB exactly and interpolates linearly in between:          *)
(* DbToLinear(6k + r) = 2^k * (1 + r/6) for 0 <= r < 6.  LinearToDb is its *)
(* inverse, standing for 20 * log10; both are increasing and the round     *)
(* trip is exact, as it is (to rounding) in the code.                      *)
(***************************************************************************)
\* floor of a rational
RFloor(a) == a[1] \div a[2]

RECURSIVE Pow2(_)
Pow2(k) ==
    IF k = 0 THEN ROne
    ELSE IF k > 0 THEN RMul(RInt(2), Pow2(k - 1))
    ELSE RDiv(Pow2(k + 1), RInt(2))

\* 10 ** (db / 20)
DbToLinear(db) ==
    LET k == RFloor(RDiv(db, RInt(6)))
        r == RSub(db, RInt(6 * k))
    IN  RMul(Pow2(k), RAdd(ROne, RDiv(r, RInt(6))))

\* the k with 2^k <= m < 2^(k+1), for m > 0
RECURSIVE Log2Floor(_)
Log2Floor(m) ==
    IF RLt(m, ROne) THEN Log2Floor(RMul(m, RInt(2))) - 1
    ELSE IF RLe(RInt(2), m) THEN Log2Floor(RDiv(m, RInt(2))) + 1
    ELSE 0

\* 20 * log10(m), for m > 0
LinearToDb(m) ==
    LET k == Log2Floor(m)
    IN  RAdd(RInt(6 * k), RMul(RInt(6), RSub(RDiv(m, Pow2(k)), ROne)))

\* int(t * self.sample_rate), t in seconds given as a rational
SamplesOf(t) == (t[1] * sample_rate) \div t[2]

\* milliseconds as seconds
Ms(k) == Rat(k, 1000)

(***************************************************************************)
(* Buffers row by row.                                                     *)
(***************************************************************************)
\* the same function applied to every row (1-D: to the array itself)
MapRows(audio, F(_)) ==
    [audio EXCEPT !.ch = [c \in 1 .. Len(audio.ch) |-> F(audio.ch[c])]]

\* the same function applied to every sample of a row
MapSamples(row, F(_)) == [i \in 1 .. Len(row) |-> F(row[i])]

(***************************************************************************)
(* Parametric EQ.  The IIR filtering itself (scipy.signal.butter and       *)
(* filtfilt) is not represented: a band acts on every sample with the      *)
(* gain its zero-phase (forward-backward, hence squared) response has at   *)
(* the band's own frequency.  filtfilt's minimum input length is not       *)
(* represented either: the short rows of the model stand for long ones.    *)
(***************************************************************************)
EqTypes == {"peak", "low_shelf", "high_shelf", "lowpass", "highpass"}

\* the squared magnitude response at the band's frequency
BandGain(gain, eq_type) ==
    CASE eq_type = "peak" -> DbToLinear(RMul(RInt(2), gain))
      [] eq_type \in {"low_shelf", "high_shelf"} -> DbToLinear(gain)
      [] eq_type \in {"lowpass", "highpass"} -> DbToLinear(RInt(-6))

\* signal.butter raises ValueError unless 0 < Wn < 1
ButterRaises(freq, eq_type) ==
    LET nyquist == Rat(sample_rate, 2)
        normalized_freq == RDiv(freq, nyquist)
    IN  /\ eq_type \in {"lowpass", "highpass"}
        /\ ~(RLt(RZero, normalized_freq) /\ RLt(normalized_freq, ROne))

_apply_eq_band(audio, freq, gain, q, eq_type) ==
    IF eq_type \notin EqTypes THEN audio
    ELSE MapRows(audio,
             LAMBDA row : MapSamples(row,
                 LAMBDA x : RMul(x, BandGain(gain, eq_type))))

\* abs(gain) > 0.1: only a significant gain change is applied
BandApplied(band) == RLt(Rat(1, 10), RAbs(Get(band, "gain", RZero)))

\* the band makes the loop of apply_eq raise
BandRaises(band) ==
    \/ ~IsNumber(Get(band, "gain", RZero))
    \/ /\ BandApplied(band)
       /\ ButterRaises(Get(band, "frequency", RInt(1000)),
                       Get(band, "type", "peak"))

RECURSIVE EqLoop(_, _, _)
EqLoop(processed, bands, k) ==
    IF k > Len(bands) THEN processed
    ELSE LET band == bands[k]
             freq == Get(band, "frequency", RInt(1000))
             gain == Get(band, "gain", RZero)
             q == Get(band, "q", ROne)
             eq_type == Get(band, "type", "peak")
         IN  EqLoop(IF BandApplied(band)
                    THEN _apply_eq_band(processed, freq, gain, q, eq_type)
                    ELSE processed,
                    bands, k + 1)

\* an exception inside the try block of apply_eq
EqRaises(eq_settings) ==
    LET bands == Get(eq_settings, "bands", <<>>)
    IN  \E k \in 1 .. Len(bands) : BandRaises(bands[k])

apply_eq(audio, eq_settings) ==
    IF EqRaises(eq_settings) THEN audio
    ELSE EqLoop(audio, Get(eq_settings, "bands", <<>>), 1)

(***************************************************************************)
(* Dynamic range compression.                                              *)
(***************************************************************************)
\* 1.0 - np.exp(-1.0 / n), by the two-term expansion 1/n - 1/(2 n^2)
EnvelopeCoeff(n) == Rat(2 * n - 1, 2 * n * n)

\* the envelope after the loop over i = 1 .. len - 1; envelope[0] stays 0
RECURSIVE EnvelopeLoop(_, _, _, _)
EnvelopeLoop(signal_db, attack_coeff, release_coeff, n) ==
    IF n = 0 THEN <<>>
    ELSE IF n = 1 THEN <<RZero>>
    ELSE LET envelope == EnvelopeLoop(signal_db, attack_coeff, release_coeff, n - 1)
             prev == envelope[n - 1]
             coeff == IF RLt(prev, signal_db[n]) THEN attack_coeff
                      ELSE release_coeff
         IN  Append(envelope,
                    RAdd(prev, RMul(RSub(signal_db[n], prev), coeff)))

_apply_envelope(signal_db, attack, release) ==
    LET attack_samples == Max2(1, SamplesOf(attack))
        release_samples == Max2(1, SamplesOf(release))
    IN  EnvelopeLoop(signal_db, EnvelopeCoeff(attack_samples),
                     EnvelopeCoeff(release_samples), Len(signal_db))

\* the 1e-10 added under the logarithm, at the scale of the model's samples:
\* a power of two well below the smallest non-zero chain sample, 1 / Unit.
\* A zero sample reads 20 * log10(Eps), -200 dB in the code.
Eps == Rat(1, 1024)

\* the magnitude from which a sample is of ordinary size: next to it the
\* 1e-10 changes the level by less than 1e-8 dB and is left out
Audible == Rat(1, 16)

\* 20 * np.log10(np.abs(x) + 1e-10)
AudioDb(x) ==
    IF RLt(RAbs(x), Audible) THEN LinearToDb(RAdd(RAbs(x), Eps))
    ELSE LinearToDb(RAbs(x))

\* the gain reduction before the envelope
StaticGainReduction(audio, threshold, ratio) ==
    [i \in 1 .. Len(audio) |->
        IF RLt(threshold, AudioDb(audio[i]))
        THEN RMul(RSub(AudioDb(audio[i]), threshold),
                  RSub(ROne, RDiv(ROne, ratio)))
        ELSE RZero]

_apply_compression_channel(audio, threshold, ratio, attack, release, makeup_gain) ==
    LET gain == _apply_envelope(StaticGainReduction(audio, threshold, ratio),
                                attack, release)
        compressed_linear(i) ==
            \* np.sign(audio) * 10 ** (compressed_db / 20)
            IF audio[i][1] = 0 THEN RZero
            ELSE RMul(RSign(audio[i]),
                      DbToLinear(RSub(AudioDb(audio[i]), gain[i])))
    IN  [i \in 1 .. Len(audio) |->
            IF makeup_gain # RZero
            THEN RMul(compressed_linear(i), DbToLinear(makeup_gain))
            ELSE compressed_linear(i)]

\* the largest magnitude of a row
RECURSIVE PeakOf(_, _)
PeakOf(row, n) ==
    IF n = 0 THEN RZero
    ELSE LET p == PeakOf(row, n - 1)
         IN  IF RLt(p, RAbs(row[n])) THEN RAbs(row[n]) ELSE p

\* the sum of the squares of a row
RECURSIVE SumSquares(_, _)
SumSquares(row, n) ==
    IF n = 0 THEN RZero
    ELSE RAdd(SumSquares(row, n - 1), RMul(row[n], row[n]))

\* 20 * log10(peak / (rms + 1e-10)) of one row, taken as
\* 10 * log10(peak^2 / mean(x^2)); a silent row gives log10(0) = -inf,
\* for which a large negative number stands
RowDynamicRange(row) ==
    LET peak == PeakOf(row, Len(row))
        mean_sq == RDiv(SumSquares(row, Len(row)), RInt(Len(row)))
    IN  IF peak = RZero THEN RInt(-1000)
        ELSE RDiv(LinearToDb(RDiv(RMul(peak, peak), mean_sq)), RInt(2))

RECURSIVE MaxOfRows(_, _)
MaxOfRows(audio, n) ==
    IF n = 1 THEN RowDynamicRange(audio.ch[1])
    ELSE LET m == MaxOfRows(audio, n - 1)
             d == RowDynamicRange(audio.ch[n])
         IN  IF RLt(m, d) THEN d ELSE m

_calculate_dynamic_range(audio) == MaxOfRows(audio, Len(audio.ch))

\* a variant moving the threshold by the same amounts in both directions
_optimize_compression_for_dr_symmetric(current_dr, target_dr, threshold, ratio) ==
    LET dr_difference == RSub(current_dr, target_dr)
    IN  IF RLt(RInt(2), dr_difference)
        THEN <<RSub(threshold, RMin(RMul(dr_difference, Rat(1, 2)), RInt(6))),
               RMin(RMul(ratio, RAdd(ROne, RMul(dr_difference, Rat(1, 10)))),
                    RInt(10))>>
        ELSE IF RLt(dr_difference, RInt(-2))
        THEN <<RAdd(threshold,
                    RMin(RMul(RAbs(dr_difference), Rat(1, 2)), RInt(6))),
               LET r == RMul(ratio, RSub(ROne, RMul(RAbs(dr_difference), Rat(5, 100))))
               IN  IF RLt(r, Rat(3, 2)) THEN Rat(3, 2) ELSE r>>
        ELSE <<threshold, ratio>>

\* returns <<new_threshold, new_ratio>>
_optimize_compression_for_dr(current_dr, target_dr, threshold, ratio) ==
    LET dr_difference == RSub(current_dr, target_dr)
    IN  IF RLt(RInt(2), dr_difference)
        THEN <<RSub(threshold, RMin(RMul(dr_difference, Rat(1, 2)), RInt(6))),
               RMin(RMul(ratio, RAdd(ROne, RMul(dr_difference, Rat(1, 10)))),
                    RInt(10))>>
        ELSE IF RLt(dr_difference, RInt(-2))
        THEN <<RAdd(threshold,
                    RMin(RMul(RAbs(dr_difference), Rat(3, 10)), RInt(4))),
               LET r == RMul(ratio, RSub(ROne, RMul(RAbs(dr_difference), Rat(5, 100))))
               IN  IF RLt(r, Rat(3, 2)) THEN Rat(3, 2) ELSE r>>
        ELSE <<threshold, ratio>>

\* an exception inside the try block of apply_compression: arithmetic on a
\* value that is no number, or 1 / ratio with ratio == 0
CompressionRaises(comp_settings) ==
    \/ \E k \in DOMAIN comp_settings \ {"target_dynamic_range"} :
           ~IsNumber(comp_settings[k])
    \/ Get(comp_settings, "ratio", RInt(4)) = RZero

apply_compression(audio, comp_settings) ==
    IF CompressionRaises(comp_settings) THEN audio
    ELSE LET threshold == Get(comp_settings, "threshold", RInt(-12))
             ratio == Get(comp_settings, "ratio", RInt(4))
             attack == Get(comp_settings, "attack", Ms(3))
             release == Get(comp_settings, "release", Ms(100))
             makeup_gain == Get(comp_settings, "makeup_gain", RZero)
             target_dr == Get(comp_settings, "target_dynamic_range", None)
             tr == IF target_dr # None /\ target_dr # RZero
                   THEN _optimize_compression_for_dr(
                            _calculate_dynamic_range(audio), target_dr,
                            threshold, ratio)
                   ELSE <<threshold, ratio>>
         IN  MapRows(audio,
                 LAMBDA row : _apply_compression_channel(
                                  row, tr[1], tr[2], attack, release, makeup_gain))

(***************************************************************************)
(* Saturation.  tanh and exp are replaced by rational functions with the   *)
(* same shape: TanhApprox is odd, increasing, 0 at 0 and below 1 in        *)
(* magnitude; ExpNeg(a) is 1 at 0 and decreases towards 0.                 *)
(***************************************************************************)
\* np.tanh(z)
TanhApprox(z) ==
    LET a == RAbs(z)
        p == RAdd(a, RMul(a, a))
    IN  RMul(RSign(z), RDiv(p, RAdd(ROne, p)))

\* np.exp(-a), a >= 0
ExpNeg(a) ==
    RDiv(ROne, RAdd(RAdd(ROne, a), RDiv(RMul(a, a), RInt(2))))

_tube_saturation(x, drive) ==
    LET driven == RMul(x, drive)
    IN  RMul(TanhApprox(RMul(driven, Rat(7, 10))), Rat(95, 100))

_tape_saturation(x, drive) ==
    LET driven == RMul(x, drive)
    IN  RDiv(driven, RAdd(ROne, RAbs(driven)))

_soft_clipper(x, drive) ==
    LET driven == RMul(x, drive)
    IN  RMul(RSign(driven), RSub(ROne, ExpNeg(RAbs(driven))))

\* arithmetic on a drive or mix that is no number raises TypeError
SaturationRaises(sat_settings) ==
    \/ ~IsNumber(Get(sat_settings, "drive", ROne))
    \/ ~IsNumber(Get(sat_settings, "mix", ROne))

\* a variant returning the saturated signal alone, whatever the mix
apply_saturation_wet_only(audio, sat_settings) ==
    IF SaturationRaises(sat_settings) THEN audio
    ELSE LET drive == Get(sat_settings, "drive", ROne)
             saturation_type == Get(sat_settings, "type", "tube")
             saturated(x) ==
                 IF saturation_type = "tube" THEN _tube_saturation(x, drive)
                 ELSE IF saturation_type = "tape" THEN _tape_saturation(x, drive)
                 ELSE _soft_clipper(x, drive)
         IN  MapRows(audio, LAMBDA row : MapSamples(row, saturated))

apply_saturation(audio, sat_settings) ==
    IF SaturationRaises(sat_settings) THEN audio
    ELSE LET drive == Get(sat_settings, "drive", ROne)
             saturation_type == Get(sat_settings, "type", "tube")
             mix == Get(sat_settings, "mix", ROne)
             saturated(x) ==
                 IF saturation_type = "tube" THEN _tube_saturation(x, drive)
                 ELSE IF saturation_type = "tape" THEN _tape_saturation(x, drive)
                 ELSE _soft_clipper(x, drive)
         IN  MapRows(audio,
                 LAMBDA row : MapSamples(row,
                     LAMBDA x : RAdd(RMul(x, RSub(ROne, mix)),
                                     RMul(saturated(x), mix))))

(***************************************************************************)
(* The brick-wall limiter.                                                 *)
(***************************************************************************)
\* the gain before smoothing: 1, or ceiling / |x| at a peak
PeakGain(audio, ceiling_linear) ==
    [i \in 1 .. Len(audio) |->
        IF RLt(ceiling_linear, RAbs(audio[i]))
        THEN RMin(ROne, RDiv(ceiling_linear, RAbs(audio[i])))
        ELSE ROne]

\* a faulty forward pass: the smoothing is applied on the attack side as well
ReleaseStepAlways(prev, cur, release_samples) ==
    LET release_coeff == Rat(release_samples - 1, release_samples)
    IN  RAdd(RMul(prev, release_coeff), RMul(cur, RSub(ROne, release_coeff)))

\* one iteration of the forward pass over gain_reduction
ReleaseStep(prev, cur, release_samples) ==
    IF RLt(cur, prev)
    THEN cur
    ELSE LET release_coeff == Rat(release_samples - 1, release_samples)
         IN  RAdd(RMul(prev, release_coeff), RMul(cur, RSub(ROne, release_coeff)))

\* gain_reduction after the forward pass, computed in place from index 1 on
RECURSIVE SmoothGain(_, _, _)
SmoothGain(gain, release_samples, n) ==
    IF n = 0 THEN <<>>
    ELSE IF n = 1 THEN <<gain[1]>>
    ELSE LET done == SmoothGain(gain, release_samples, n - 1)
         IN  Append(done, ReleaseStep(done[n - 1], gain[n], release_samples))

LimiterGain(audio, ceiling_linear, release) ==
    SmoothGain(PeakGain(audio, ceiling_linear),
               Max2(1, SamplesOf(release)), Len(audio))

_apply_limiting_channel(audio, ceiling_linear, release) ==
    LET gain == LimiterGain(audio, ceiling_linear, release)
    IN  [i \in 1 .. Len(audio) |-> RMul(audio[i], gain[i])]

\* the limiter raises inside its try block: a non-numeric ceiling or release
LimitingRaises(limit_settings) ==
    \/ ~IsNumber(Get(limit_settings, "ceiling", <<-1, 10>>))
    \/ ~IsNumber(Get(limit_settings, "release", Ms(50)))

apply_limiting(audio, limit_settings) ==
    IF LimitingRaises(limit_settings) THEN audio
    ELSE LET ceiling == Get(limit_settings, "ceiling", <<-1, 10>>)
             release == Get(limit_settings, "release", Ms(50))
             ceiling_linear == DbToLinear(ceiling)
         IN  [audio EXCEPT !.ch =
                 [c \in 1 .. Len(audio.ch) |->
                     _apply_limiting_channel(audio.ch[c], ceiling_linear, release)]]

(***************************************************************************)
(* Mid/side stereo width.                                                  *)
(***************************************************************************)
\* a faulty upmix: a mono signal is left with its single row
StereoRowsNoDuplicate(audio) == audio.ch

\* the two rows the stage works on: a mono signal is duplicated
StereoRows(audio) ==
    IF audio.ndim = 1 THEN <<audio.ch[1], audio.ch[1]>>
    ELSE IF Rows(audio) = 1 THEN <<audio.ch[1], audio.ch[1]>>
    ELSE audio.ch

\* a faulty conversion back to L/R: the right row is computed from the left
\* row that was just overwritten
MidSideAliased(left, right, width) ==
    LET mid(i)  == RDiv(RAdd(left[i], right[i]), RInt(2))
        side(i) == RMul(RDiv(RSub(left[i], right[i]), RInt(2)), width)
        newl    == [i \in 1 .. Len(left) |-> RAdd(mid(i), side(i))]
        mid2(i)  == RDiv(RAdd(newl[i], right[i]), RInt(2))
        side2(i) == RMul(RDiv(RSub(newl[i], right[i]), RInt(2)), width)
    IN  <<newl, [i \in 1 .. Len(left) |-> RSub(mid2(i), side2(i))]>>

\* mid = (left + right) / 2; side = (left - right) / 2 * width;
\* rows 0 and 1 become mid + side and mid - side
MidSide(left, right, width) ==
    LET mid(i)  == RDiv(RAdd(left[i], right[i]), RInt(2))
        side(i) == RMul(RDiv(RSub(left[i], right[i]), RInt(2)), width)
    IN  <<[i \in 1 .. Len(left) |-> RAdd(mid(i), side(i))],
          [i \in 1 .. Len(left) |-> RSub(mid(i), side(i))]>>

\* side *= width raises TypeError when width is not a number
StereoRaises(stereo_settings) ==
    LET width == Get(stereo_settings, "width", ROne)
    IN  width # ROne /\ ~IsNumber(width)

apply_stereo_processing(audio, stereo_settings) ==
    LET width == Get(stereo_settings, "width", ROne)
        stereo_audio == StereoRows(audio)
    IN  IF StereoRaises(stereo_settings)
        THEN \* except: the stereo version of a 1-D input, else the input
             IF audio.ndim = 1 THEN Array2D(<<audio.ch[1], audio.ch[1]>>)
             ELSE audio
        ELSE IF width # ROne /\ Len(stereo_audio) >= 2
        THEN Array2D(MidSide(stereo_audio[1], stereo_audio[2], width))
        ELSE Array2D(stereo_audio)

(***************************************************************************)
(* The rule-based genre classifier, AudioAnalyzer._predict_genre.          *)
(* Scores and confidences are counted in tenths (0.3 is 3), zcr_mean in    *)
(* thousandths, the MFCC means in tenths; mfcc_mean is indexed from 1, so  *)
(* mfcc_mean[k + 1] is the code's mfcc_mean[k].                            *)
(***************************************************************************)
\* the keys of genre_scores, in insertion order
GenreOrder == <<"electronic", "rock", "jazz", "hip-hop", "pop">>

Genres == {GenreOrder[i] : i \in 1 .. Len(GenreOrder)}

\* a rule adds its weight when its condition holds
Rule(cond, weight) == IF cond THEN weight ELSE 0

ElectronicScore(f) ==
      Rule(f.centroid_mean > 1800, 4)
    + Rule(f.zcr_mean > 50, 3)
    + Rule(f.tempo > 110 /\ f.tempo < 180, 3)
    + Rule(f.rolloff_mean > 2500, 3)
    + Rule(f.mfcc_mean[3] > 100, 4)
    + Rule(f.mfcc1_std > 20, 3)

RockScore(f) ==
      Rule(f.centroid_mean > 1500 /\ f.centroid_mean < 3000, 2)
    + Rule(f.tempo > 100 /\ f.tempo < 160, 2)
    + Rule(f.rolloff_mean > 3000, 3)
    + Rule(f.mfcc_mean[3] < 0, 3)

\* a faulty rule set: the zero-crossing rule of jazz is missing
JazzScoreWithoutZcr(f) ==
      Rule(f.centroid_mean < 1500, 2)
    + Rule(f.tempo > 80 /\ f.tempo < 120, 2)
    + Rule(f.mfcc1_std < 15, 2)
    + Rule(f.rolloff_mean < 2000, 3)

JazzScore(f) ==
      Rule(f.centroid_mean < 1500, 2)
    + Rule(f.tempo > 80 /\ f.tempo < 120, 2)
    + Rule(f.zcr_mean < 30, 3)
    + Rule(f.mfcc1_std < 15, 2)
    + Rule(f.rolloff_mean < 2000, 3)

HipHopScore(f) ==
      Rule(f.tempo > 70 /\ f.tempo < 100, 3)
    + Rule(f.centroid_mean < 1800, 2)
    + Rule(f.mfcc_mean[1] > 0, 3)
    + Rule(f.rolloff_mean < 2500, 2)

PopScore(f) ==
      Rule(f.tempo > 90 /\ f.tempo < 130, 2)
    + Rule(f.centroid_mean > 1000 /\ f.centroid_mean < 2500, 3)
    + Rule(f.zcr_mean > 30 /\ f.zcr_mean < 80, 3)
    + Rule(Abs(f.mfcc_mean[2]) < 5, 2)

GenreScores(f) ==
    [g \in Genres |->
        CASE g = "electronic" -> ElectronicScore(f)
          [] g = "rock"       -> RockScore(f)
          [] g = "jazz"       -> JazzScore(f)
          [] g = "hip-hop"    -> HipHopScore(f)
          [] g = "pop"        -> PopScore(f)]

\* a faulty argmax: the last key of the dictionary is never looked at
ArgMaxSkipsLast(scores) ==
    LET i == CHOOSE k \in 1 .. Len(GenreOrder) - 1 :
                 /\ \A j \in 1 .. Len(GenreOrder) - 1 :
                        scores[GenreOrder[j]] <= scores[GenreOrder[k]]
                 /\ \A j \in 1 .. k - 1 :
                        scores[GenreOrder[j]] < scores[GenreOrder[k]]
    IN  GenreOrder[i]

\* max(genre_scores, key=genre_scores.get): the first key with the top score
ArgMax(scores) ==
    LET i == CHOOSE k \in 1 .. Len(GenreOrder) :
                 /\ \A j \in 1 .. Len(GenreOrder) :
                        scores[GenreOrder[j]] <= scores[GenreOrder[k]]
                 /\ \A j \in 1 .. k - 1 :
                        scores[GenreOrder[j]] < scores[GenreOrder[k]]
    IN  GenreOrder[i]

\* a faulty result: the confidence is returned without the cap
ConfidenceUncapped(confidence) == confidence

\* float(min(confidence, 1.0))
CappedConfidence(confidence) == Min2(confidence, 10)

_predict_genre(f) ==
    IF f.raises
    THEN \* except: feature extraction failed
         [genre |-> "electronic", confidence |-> 5]
    ELSE LET scores == GenreScores(f)
             predicted_genre == ArgMax(scores)
             confidence == scores[predicted_genre]
         IN  IF confidence < 3
             THEN [genre |-> "pop", confidence |-> CappedConfidence(5)]
             ELSE [genre |-> predicted_genre,
                   confidence |-> CappedConfidence(confidence)]

(***************************************************************************)
(* apply_mastering_chain(audio_data, settings), followed stage by stage.   *)
(***************************************************************************)
\* a settings argument that is no dictionary (None): it has no .get
NotADict == [not_a_dict |-> TRUE]

IsDict(d) == d # NotADict

\* settings[key], or an empty dictionary
Section(d, key) == Get(d, key, <<>>)

\* a faulty test: every stage is taken to be switched on
SectionAlwaysPresent(d, key) == TRUE

\* settings.get(key) is truthy: the key is there and its dictionary not empty
SectionPresent(d, key) == key \in DOMAIN d /\ DOMAIN d[key] # {}

\* processed_audio = audio_data.copy()
ChainBegin ==
    /\ pc = "start"
    /\ processed_audio' = audio_data
    /\ pc' = "eq"
    /\ UNCHANGED <<audio_data, settings, gain_reduction, stages, outcome,
                   logged, features, genre_scores, prediction>>
    /\ UNCHANGED otherVars
    /\ UNCHANGED serverVars

\* settings.get raises AttributeError; the except block logs and re-raises
ChainRaise ==
    /\ pc = "eq"
    /\ ~IsDict(settings)
    /\ outcome' = "raised"
    /\ logged' = Append(logged, "chain")
    /\ pc' = "done"
    /\ UNCHANGED <<audio_data, settings, processed_audio, gain_reduction,
                   stages, features, genre_scores, prediction>>
    /\ UNCHANGED otherVars
    /\ UNCHANGED serverVars

\* one `if settings.get(key): processed_audio = stage(processed_audio, ...)`,
\* result being what the stage returns and raised whether it raised inside;
\* a stage that raises logs the error and returns the buffer it was given
StageStep(here, next, key, name, result, raised) ==
    /\ pc = here
    /\ IsDict(settings)
    /\ IF SectionPresent(settings, key)
       THEN /\ processed_audio' = result
            /\ stages' = Append(stages, name)
            /\ logged' = IF raised THEN Append(logged, name) ELSE logged
       ELSE UNCHANGED <<processed_audio, stages, logged>>
    /\ pc' = next
    /\ UNCHANGED <<audio_data, settings, outcome, features, genre_scores,
                   prediction>>
    /\ UNCHANGED otherVars
    /\ UNCHANGED serverVars

StageEq ==
    /\ StageStep("eq", "compression", "eq_settings", "eq",
                 apply_eq(processed_audio, Section(settings, "eq_settings")),
                 EqRaises(Section(settings, "eq_settings")))
    /\ UNCHANGED gain_reduction

StageCompression ==
    /\ StageStep("compression", "saturation", "compression_settings",
                 "compression",
                 apply_compression(processed_audio,
                                   Section(settings, "compression_settings")),
                 CompressionRaises(Section(settings, "compression_settings")))
    /\ UNCHANGED gain_reduction

StageSaturation ==
    /\ StageStep("saturation", "stereo", "saturation_settings", "saturation",
                 apply_saturation(processed_audio,
                                  Section(settings, "saturation_settings")),
                 SaturationRaises(Section(settings, "saturation_settings")))
    /\ UNCHANGED gain_reduction

StageStereo ==
    /\ StageStep("stereo", "limiting", "stereo_settings", "stereo",
                 apply_stereo_processing(processed_audio,
                                         Section(settings, "stereo_settings")),
                 StereoRaises(Section(settings, "stereo_settings")))
    /\ UNCHANGED gain_reduction

StageLimiting ==
    /\ StageStep("limiting", "return", "limiting_settings", "limiting",
                 apply_limiting(processed_audio, Section(settings, "limiting_settings")),
                 LimitingRaises(Section(settings, "limiting_settings")))
    /\ UNCHANGED gain_reduction

\* return processed_audio
ChainReturn ==
    /\ pc = "return"
    /\ outcome' = "returned"
    /\ pc' = "done"
    /\ UNCHANGED <<audio_data, settings, processed_audio, gain_reduction,
                   stages, logged, features, genre_scores, prediction>>
    /\ UNCHANGED otherVars
    /\ UNCHANGED serverVars

(***************************************************************************)
(* The limiter called on its own: apply_limiting(audio, limit_settings).   *)
(***************************************************************************)
\* ceilings at or below 0 dB; the key may be absent (default -0.1 dB)
CeilingsDb == {RInt(0), RInt(-3), RInt(-12)}

\* release times above 0; the key may be absent (default 0.05 s)
Releases == {Ms(1), Ms(4)}

LimitSettings ==
    {[ceiling |-> c, release |-> r] : c \in CeilingsDb, r \in Releases}
    \cup {[ceiling |-> c] : c \in CeilingsDb}
    \cup {[release |-> r] : r \in Releases}
    \cup {<<>>}

LimiterInputs ==
    {Mono1D(c) : c \in Channels}
    \cup {Array2D(<<l, r>>) : l, r \in SeqsOf(CoarseSamples, 2)}

GenreIdle ==
    /\ features = <<>>
    /\ genre_scores = <<>>
    /\ prediction = <<>>

InitLimiter ==
    /\ pc = "limit_call"
    /\ audio_data \in LimiterInputs
    /\ settings \in {[limiting_settings |-> ls] : ls \in LimitSettings}
    /\ processed_audio = EmptyBuffer
    /\ gain_reduction = <<>>
    /\ stages = <<>>
    /\ outcome = "none"
    /\ logged = <<>>
    /\ GenreIdle
    /\ OthersIdle
    /\ ServerIdle

LimitCall ==
    /\ pc = "limit_call"
    /\ processed_audio' = apply_limiting(audio_data, settings.limiting_settings)
    /\ gain_reduction' =
          IF LimitingRaises(settings.limiting_settings) THEN <<>>
          ELSE [c \in 1 .. Len(audio_data.ch) |->
                   LimiterGain(audio_data.ch[c],
                       DbToLinear(Get(settings.limiting_settings, "ceiling", <<-1, 10>>)),
                       Get(settings.limiting_settings, "release", Ms(50)))]
    /\ stages' = Append(stages, "limiting")
    /\ outcome' = "returned"
    /\ pc' = "limit_return"
    /\ logged' = logged
    /\ UNCHANGED <<audio_data, settings, features, genre_scores, prediction>>
    /\ UNCHANGED otherVars
    /\ UNCHANGED serverVars

NextLimiter == LimitCall

SpecLimiter == InitLimiter /\ [][NextLimiter]_vars

\* the ceiling of the limiter call, as a linear level
CeilingLinear == DbToLinear(Get(settings.limiting_settings, "ceiling", <<-1, 10>>))

Widths == {RInt(0), Rat(1, 2), ROne, Rat(3, 2), RInt(2), RInt(-1), None}

StereoSettings == {[width |-> w] : w \in Widths} \cup {<<>>}

StereoInputs ==
    {Mono1D(c) : c \in Channels}
    \cup {Array2D(<<c>>) : c \in SeqsOf(Samples, 1) \cup SeqsOf(Samples, 2)}
    \cup {Array2D(<<l, r>>) : l, r \in SeqsOf(Samples, 1)}
    \cup {Array2D(<<l, r>>) : l, r \in SeqsOf(CoarseSamples, 2)}

InitStereo ==
    /\ pc = "stereo_call"
    /\ audio_data \in StereoInputs
    /\ settings \in {[stereo_settings |-> ss] : ss \in StereoSettings}
    /\ processed_audio = EmptyBuffer
    /\ gain_reduction = <<>>
    /\ stages = <<>>
    /\ outcome = "none"
    /\ logged = <<>>
    /\ GenreIdle
    /\ OthersIdle
    /\ ServerIdle

StereoCall ==
    /\ pc = "stereo_call"
    /\ processed_audio' = apply_stereo_processing(audio_data, settings.stereo_settings)
    /\ stages' = Append(stages, "stereo")
    /\ outcome' = "returned"
    /\ pc' = "stereo_return"
    /\ logged' = IF StereoRaises(settings.stereo_settings)
                  THEN Append(logged, "stereo") ELSE logged
    /\ UNCHANGED <<audio_data, settings, gain_reduction, features,
                   genre_scores, prediction>>
    /\ UNCHANGED otherVars
    /\ UNCHANGED serverVars

NextStereo == StereoCall

SpecStereo == InitStereo /\ [][NextStereo]_vars

\* the width of the stereo call
Width == Get(settings.stereo_settings, "width", ROne)

\* the input of the stereo call is a stereo buffer (L, R)
StereoInput == audio_data.ndim = 2 /\ Rows(audio_data) = 2

\* C7: for stereo input (L, R) and a numeric width w the stage returns
\* L' = M + S and R' = M - S with M = (L+R)/2 and S = w*(L-R)/2 taken from
\* the original L and R; with w = 0 both rows are equal at every sample and
\* with w = 1 the output is the input.
StereoMidSideFormula ==
    (pc = "stereo_return" /\ StereoInput /\ IsNumber(Width)) =>
        LET L == audio_data.ch[1]
            R == audio_data.ch[2]
            M(i) == RDiv(RAdd(L[i], R[i]), RInt(2))
            S(i) == RDiv(RMul(Width, RSub(L[i], R[i])), RInt(2))
        IN  /\ Rows(processed_audio) = 2
            /\ \A i \in 1 .. Len(L) :
                  /\ processed_audio.ch[1][i] = RAdd(M(i), S(i))
                  /\ processed_audio.ch[2][i] = RSub(M(i), S(i))
            /\ Width = RZero => processed_audio.ch[1] = processed_audio.ch[2]
            /\ Width = ROne => processed_audio = audio_data

\* a stereo input with different rows has been folded to mono by width 0
StereoFoldedToMono ==
    /\ pc = "stereo_return"
    /\ StereoInput
    /\ Width = RZero
    /\ audio_data.ch[1] # audio_data.ch[2]
    /\ processed_audio.ch[1] = processed_audio.ch[2]
    /\ processed_audio # audio_data

\* C8: the stereo stage returns exactly 2 rows for every input shape and on
\* every path, its error path included, and for mono input the two rows
\* returned are equal whatever the width.
StereoAlwaysTwoChannels ==
    pc = "stereo_return" =>
        /\ processed_audio.ndim = 2
        /\ Rows(processed_audio) = 2
        /\ ~StereoInput => processed_audio.ch[1] = processed_audio.ch[2]

(***************************************************************************)
(* The genre classifier called on its own.  The feature values are one     *)
(* per side of each threshold of the rule table, and the thresholds.       *)
(***************************************************************************)
CentroidValues == {0, 1000, 1200, 1500, 1700, 1800, 2000, 2500, 3000}
ZcrValues == {0, 30, 40, 50, 60, 80}
TempoValues == {0, 70, 80, 90, 95, 100, 110, 115, 120, 130, 160, 180}
RolloffValues == {0, 2000, 2500, 3000, 3200}
Mfcc0Values == {-10, 10}
Mfcc1Values == {0, 5}
Mfcc2Values == {-1, 0, 101}
Mfcc1StdValues == {0, 17, 21}

ExtractedFeatures ==
    [raises : {FALSE}, centroid_mean : CentroidValues, zcr_mean : ZcrValues,
     tempo : TempoValues, rolloff_mean : RolloffValues,
     mfcc_mean : Mfcc0Values \X Mfcc1Values \X Mfcc2Values,
     mfcc1_std : Mfcc1StdValues]

\* librosa raised before any rule was evaluated
FailedFeatures ==
    [raises |-> TRUE, centroid_mean |-> 0, zcr_mean |-> 0, tempo |-> 0,
     rolloff_mean |-> 0, mfcc_mean |-> <<0, 0, 0>>, mfcc1_std |-> 0]

InitGenre ==
    /\ pc = "genre_call"
    /\ features \in ExtractedFeatures \cup {FailedFeatures}
    /\ genre_scores = <<>>
    /\ prediction = <<>>
    /\ audio_data = EmptyBuffer
    /\ settings = <<>>
    /\ processed_audio = EmptyBuffer
    /\ gain_reduction = <<>>
    /\ stages = <<>>
    /\ outcome = "none"
    /\ logged = <<>>
    /\ OthersIdle
    /\ ServerIdle

GenreCall ==
    /\ pc = "genre_call"
    /\ genre_scores' = IF features.raises THEN <<>> ELSE GenreScores(features)
    /\ prediction' = _predict_genre(features)
    /\ pc' = "genre_return"
    /\ UNCHANGED <<features, audio_data, settings, processed_audio,
                   gain_reduction, stages, outcome, logged>>
    /\ UNCHANGED otherVars
    /\ UNCHANGED serverVars

NextGenre == GenreCall

SpecGenre == InitGenre /\ [][NextGenre]_vars

\* the highest of the five scores
TopScore == CHOOSE t \in {genre_scores[g] : g \in Genres} :
                \A g \in Genres : genre_scores[g] <= t

\* C9: from the five scores the classifier returns a label with the highest
\* score and confidence min(top score, 1.0), except that a top score below
\* 0.3 gives pop with confidence 0.5.
GenreIsArgmaxOrPopFallback ==
    (pc = "genre_return" /\ ~features.raises) =>
        IF TopScore < 3
        THEN prediction = [genre |-> "pop", confidence |-> 5]
        ELSE /\ genre_scores[prediction.genre] = TopScore
             /\ prediction.confidence = Min2(TopScore, 10)

\* no score reaches 0.3, some genre other than pop is ahead, pop is returned
GenreFellBackToPop ==
    /\ pc = "genre_return"
    /\ ~features.raises
    /\ TopScore = 2
    /\ genre_scores["pop"] = 0
    /\ prediction = [genre |-> "pop", confidence |-> 5]

\* C10: for every combination of feature values, and when feature
\* extraction fails, the label is one of the five genres and the
\* confidence lies in [0, 1].
GenrePredictionInRange ==
    pc = "genre_return" =>
        /\ prediction.genre \in {"pop", "rock", "jazz", "electronic", "hip-hop"}
        /\ prediction.confidence >= 0
        /\ prediction.confidence <= 10

\* a top score above 1.0 has been capped
GenreConfidenceCapped ==
    /\ pc = "genre_return"
    /\ ~features.raises
    /\ TopScore > 10
    /\ prediction.confidence = 10

(***************************************************************************)
(* The mastering chain: the callers' buffers and settings.                 *)
(***************************************************************************)
\* the samples of the chain's input buffers: the extremes and a quiet one
ChainSamples == {Rat(-MaxAmp, Unit), Rat(1, Unit), Rat(MaxAmp, Unit)}

ChainInputs ==
    {Mono1D(c) : c \in SeqsOf(ChainSamples, 2)}
    \cup {Array2D(<<c>>) : c \in SeqsOf(ChainSamples, 2)}
    \cup {Array2D(<<l, r>>) : l, r \in SeqsOf(ChainSamples, 2)}

\* left out of the settings
Absent == [absent |-> TRUE]

EqOptions ==
    {[bands |-> <<[frequency |-> RInt(100), gain |-> RInt(3), q |-> ROne,
                   type |-> "peak"]>>],
     \* a cutoff at the Nyquist frequency: signal.butter raises
     [bands |-> <<[frequency |-> Rat(sample_rate, 2), gain |-> RInt(3),
                   type |-> "lowpass"]>>]}

CompressionOptions ==
    {[threshold |-> RInt(-6), ratio |-> RInt(2), attack |-> Ms(2),
      release |-> Ms(4), makeup_gain |-> RZero],
     \* out of range: a ratio below 1
     [threshold |-> RInt(-6), ratio |-> Rat(1, 2), attack |-> Ms(2),
      release |-> Ms(4), makeup_gain |-> RZero],
     \* 1 / ratio raises ZeroDivisionError
     [threshold |-> RInt(-6), ratio |-> RZero, attack |-> Ms(2),
      release |-> Ms(4), makeup_gain |-> RZero]}

SaturationOptions ==
    {[drive |-> ROne, type |-> "tape", mix |-> Rat(1, 2)],
     [drive |-> None, type |-> "tape", mix |-> Rat(1, 2)]}

StereoOptions ==
    {[width |-> Rat(3, 2)],
     \* out of range: a negative width
     [width |-> RInt(-1)],
     [width |-> None],
     \* an empty dictionary
     <<>>}

LimitingOptions ==
    {[ceiling |-> RInt(-6), release |-> Ms(4)],
     \* out of range: a ceiling above 0 dB
     [ceiling |-> RInt(6), release |-> Ms(4)],
     [ceiling |-> None, release |-> Ms(4)]}

SectionKeys == {"eq_settings", "compression_settings", "saturation_settings",
                "stereo_settings", "limiting_settings"}

\* the dictionary holding the sections that are not Absent
MakeSettings(e, c, s, st, l) ==
    LET all == [k \in SectionKeys |->
                   CASE k = "eq_settings" -> e
                     [] k = "compression_settings" -> c
                     [] k = "saturation_settings" -> s
                     [] k = "stereo_settings" -> st
                     [] k = "limiting_settings" -> l]
    IN  [k \in {j \in SectionKeys : all[j] # Absent} |-> all[k]]

ChainSettings ==
    {MakeSettings(e, c, s, st, l) :
        e \in EqOptions \cup {Absent},
        c \in CompressionOptions \cup {Absent},
        s \in SaturationOptions \cup {Absent},
        st \in StereoOptions \cup {Absent},
        l \in LimitingOptions \cup {Absent}}
    \cup {NotADict}

Init ==
    /\ pc = "start"
    /\ audio_data \in ChainInputs
    /\ settings \in ChainSettings
    /\ processed_audio = EmptyBuffer
    /\ gain_reduction = <<>>
    /\ stages = <<>>
    /\ outcome = "none"
    /\ logged = <<>>
    /\ GenreIdle
    /\ OthersIdle
    /\ ServerIdle

Next ==
    \/ ChainBegin
    \/ ChainRaise
    \/ StageEq
    \/ StageCompression
    \/ StageSaturation
    \/ StageStereo
    \/ StageLimiting
    \/ ChainReturn

Spec == Init /\ [][Next]_vars

\* the call has returned a buffer to its caller
Returned == pc = "done" /\ outcome = "returned"

AllSectionsPresent ==
    IsDict(settings) /\ \A k \in SectionKeys : SectionPresent(settings, k)

\* C1: with all five sections present and no stage failing the stages run in the order EQ,
\* saturation, compression, stereo, limiting: saturation before
\* compression, limiting last.
ChainOrderEqSatCompStereoLimit ==
    (Returned /\ AllSectionsPresent /\ logged = <<>>) =>
        stages = <<"eq", "saturation", "compression", "stereo", "limiting">>

\* the key and the name of the stage run at each position of the chain
StageAt ==
    [eq |-> "eq_settings", compression |-> "compression_settings",
     saturation |-> "saturation_settings", stereo |-> "stereo_settings",
     limiting |-> "limiting_settings"]

\* C3: a stage whose section is absent from the settings leaves the buffer
\* as it is, and with every section absent the buffer returned equals the
\* input: same samples, same rows, same length.
AbsentSectionIsBypassed ==
    /\ [][\A p \in DOMAIN StageAt :
              (pc = p /\ IsDict(settings) /\ StageAt[p] \notin DOMAIN settings)
                  => (processed_audio' = processed_audio /\ stages' = stages)]_vars
    /\ [](Returned /\ DOMAIN settings = {} => processed_audio = audio_data)

\* a call with empty settings has returned the input
EmptySettingsReturned ==
    /\ Returned
    /\ DOMAIN settings = {}
    /\ stages = <<>>
    /\ processed_audio = audio_data

\* the rows of a buffer all have the length of the input's rows
SameLength ==
    \A c \in 1 .. Rows(processed_audio) :
        Len(processed_audio.ch[c]) = Len(audio_data.ch[1])

StereoStageUpmixed ==
    /\ SectionPresent(settings, "stereo_settings")
    /\ \/ audio_data.ndim = 1
       \/ ~StereoRaises(settings.stereo_settings)

ChainFailsWhenStageFails ==
    (pc = "done" /\ logged # <<>>) => outcome = "raised"

\* some field of the settings is out of range
InvalidSettings ==
    /\ IsDict(settings)
    /\ \/ /\ SectionPresent(settings, "compression_settings")
          /\ RLt(Get(settings.compression_settings, "ratio", RInt(4)), ROne)
       \/ /\ SectionPresent(settings, "limiting_settings")
          /\ IsNumber(Get(settings.limiting_settings, "ceiling", Rat(-1, 10)))
          /\ RLt(RZero, Get(settings.limiting_settings, "ceiling", Rat(-1, 10)))
       \/ /\ SectionPresent(settings, "stereo_settings")
          /\ IsNumber(Get(settings.stereo_settings, "width", ROne))
          /\ RLt(Get(settings.stereo_settings, "width", ROne), RZero)

\* C6: a compression ratio below 1, a limiter ceiling above 0 dB or a
\* negative stereo width makes master return an error and no processed
\* audio.
ChainRejectsInvalidSettings ==
    (pc = "done" /\ InvalidSettings) => outcome = "raised"

(***************************************************************************)
(* The classifier on a silent input.                                       *)
(***************************************************************************)
\* the features of a low-signal input: centroid, rolloff, zero-crossing
\* rate and tempo at their lowest values
LowSignalFeatures ==
    /\ ~features.raises
    /\ features.centroid_mean = 0
    /\ features.rolloff_mean = 0
    /\ features.zcr_mean = 0
    /\ features.tempo = 0

\* C11 as stated: for a low-signal input the classifier returns pop with
\* confidence 0.5.
LowSignalIsPop ==
    (pc = "genre_return" /\ LowSignalFeatures) =>
        prediction = [genre |-> "pop", confidence |-> 5]

\* C11 as amended: for a low-signal input the classifier returns jazz with
\* confidence at least 0.8; the pop fallback is not taken.
LowSignalIsJazz ==
    (pc = "genre_return" /\ LowSignalFeatures) =>
        /\ prediction.genre = "jazz"
        /\ prediction.confidence >= 8
        /\ TopScore >= 3

\* a silent input (all MFCC means but the first zero, no MFCC variance) has
\* been classified as jazz with confidence 1.0
SilenceClassifiedJazz ==
    /\ pc = "genre_return"
    /\ LowSignalFeatures
    /\ features.mfcc_mean = <<-10, 0, 0>>
    /\ features.mfcc1_std = 0
    /\ prediction = [genre |-> "jazz", confidence |-> 10]

(***************************************************************************)
(* The analyzer (backend/app/services/audio_analyzer.py).  librosa's and   *)
(* numpy's transforms are not represented: a track is described by what    *)
(* they yield for it (levels in whole dB, band energies, detected tempo    *)
(* and key) and by which of their calls raise.                             *)
(***************************************************************************)
\* the mastering engine is not called
ChainIdle ==
    /\ audio_data = EmptyBuffer
    /\ settings = <<>>
    /\ processed_audio = EmptyBuffer
    /\ gain_reduction = <<>>

\* neither the preset endpoint nor an array object is involved
RestIdle ==
    /\ louder = <<>>
    /\ request = <<>>
    /\ response = <<>>
    /\ heap = <<>>
    /\ arg_ref = 0
    /\ ret_ref = 0

(***************************************************************************)
(* _analyze_frequency_masking.  band_db[i] is band_energy_db of the i-th   *)
(* critical band, 20 * log10(mean magnitude + 1e-10), in whole dB.  The    *)
(* dictionary key f'band_{center_freq:.0f}hz' is stood for by center_freq: *)
(* all centres are whole numbers.                                          *)
(***************************************************************************)
\* a faulty table: the 24 bands of the Bark scale, without 15500-20000
critical_bands_bark24 ==
    <<<<20, 100>>, <<100, 200>>, <<200, 300>>, <<300, 400>>, <<400, 510>>,
      <<510, 630>>, <<630, 770>>, <<770, 920>>, <<920, 1080>>,
      <<1080, 1270>>, <<1270, 1480>>, <<1480, 1720>>, <<1720, 2000>>,
      <<2000, 2320>>, <<2320, 2700>>, <<2700, 3150>>, <<3150, 3700>>,
      <<3700, 4400>>, <<4400, 5300>>, <<5300, 6400>>, <<6400, 7700>>,
      <<7700, 9500>>, <<9500, 12000>>, <<12000, 15500>>>>

critical_bands ==
    <<<<20, 100>>, <<100, 200>>, <<200, 300>>, <<300, 400>>, <<400, 510>>,
      <<510, 630>>, <<630, 770>>, <<770, 920>>, <<920, 1080>>,
      <<1080, 1270>>, <<1270, 1480>>, <<1480, 1720>>, <<1720, 2000>>,
      <<2000, 2320>>, <<2320, 2700>>, <<2700, 3150>>, <<3150, 3700>>,
      <<3700, 4400>>, <<4400, 5300>>, <<5300, 6400>>, <<6400, 7700>>,
      <<7700, 9500>>, <<9500, 12000>>, <<12000, 15500>>, <<15500, 20000>>>>

\* dB threshold for audibility
masking_threshold == -60

\* center_freq = (low_freq + high_freq) / 2
CenterFreq(band) == (band[1] + band[2]) \div 2

\* a faulty test: a recommendation for every band above 100 Hz
RecommendedUnmasked(is_masked, center_freq) == center_freq > 100

\* if is_masked and center_freq > 100
Recommended(is_masked, center_freq) == is_masked /\ center_freq > 100

\* the text appended for a masked band
RecommendationFor(center_freq) ==
    IF center_freq < 500
    THEN [boost |-> center_freq, by |-> "+2-4dB",
          why |-> "masked low frequencies"]
    ELSE IF center_freq < 2000
    THEN [boost |-> center_freq, by |-> "+1-3dB", why |-> "masked midrange"]
    ELSE [boost |-> center_freq, by |-> "+2-5dB",
          why |-> "masked high frequencies"]

\* the list of recommendations after the first n bands
RECURSIVE RecommendationsLoop(_, _)
RecommendationsLoop(band_db, n) ==
    IF n = 0 THEN <<>>
    ELSE LET recommendations == RecommendationsLoop(band_db, n - 1)
             center_freq == CenterFreq(critical_bands[n])
             is_masked == band_db[n] < masking_threshold
         IN  IF Recommended(is_masked, center_freq)
             THEN Append(recommendations, RecommendationFor(center_freq))
             ELSE recommendations

\* masking_analysis after the loop: a later band with the same key would
\* replace an earlier one
MaskingEntries(band_db) ==
    LET centers == {CenterFreq(critical_bands[i]) :
                        i \in 1 .. Len(critical_bands)}
        last(c) == CHOOSE i \in 1 .. Len(critical_bands) :
                       /\ CenterFreq(critical_bands[i]) = c
                       /\ \A j \in i + 1 .. Len(critical_bands) :
                              CenterFreq(critical_bands[j]) # c
    IN  [c \in centers |->
            [energy_db |-> band_db[last(c)],
             is_masked |-> band_db[last(c)] < masking_threshold,
             center_freq |-> c]]

_analyze_frequency_masking(band_db, raises) ==
    IF raises
    THEN [critical_bands |-> <<>>, recommendations |-> <<>>,
          total_masked_bands |-> 0]
    ELSE LET masking_analysis == MaskingEntries(band_db)
         IN  [critical_bands |-> masking_analysis,
              recommendations |->
                  RecommendationsLoop(band_db, Len(critical_bands)),
              total_masked_bands |->
                  Cardinality({c \in DOMAIN masking_analysis :
                                   masking_analysis[c].is_masked})]

(***************************************************************************)
(* The masking analysis called on its own.                                 *)
(***************************************************************************)
\* band energies below the threshold, and at or above it
QuietDb == {-200, -61}
LoudDb == {-60, -30}

\* energy profiles: quiet above a band, quiet up to a band, one quiet band
BandProfiles ==
    LET n == Len(critical_bands)
    IN  UNION {
          {[i \in 1 .. n |-> IF i > k THEN q ELSE l] : k \in 0 .. n}
          \cup {[i \in 1 .. n |-> IF i <= k THEN q ELSE l] : k \in 1 .. n - 1}
          \cup {[i \in 1 .. n |-> IF i = k THEN q ELSE l] : k \in 1 .. n}
          : <<q, l>> \in QuietDb \X LoudDb}

MaskingInputs ==
    {[band_db |-> b, masking_raises |-> FALSE] : b \in BandProfiles}
    \cup {[band_db |-> [i \in 1 .. Len(critical_bands) |-> -30],
           masking_raises |-> TRUE]}

InitMasking ==
    /\ pc = "masking_call"
    /\ track \in MaskingInputs
    /\ analysis = <<>>
    /\ progress = <<>>
    /\ cancel_at = -1
    /\ stages = <<>>
    /\ outcome = "none"
    /\ logged = <<>>
    /\ ChainIdle
    /\ GenreIdle
    /\ RestIdle
    /\ ServerIdle

MaskingCall ==
    /\ pc = "masking_call"
    /\ analysis' = [masking_analysis |->
                       _analyze_frequency_masking(track.band_db,
                                                  track.masking_raises)]
    /\ logged' = IF track.masking_raises THEN Append(logged, "masking")
                 ELSE logged
    /\ pc' = "masking_return"
    /\ UNCHANGED <<track, progress, cancel_at, stages, outcome, audio_data,
                   settings, processed_audio, gain_reduction, features,
                   genre_scores, prediction, louder, request, response,
                   heap, arg_ref, ret_ref>>
    /\ UNCHANGED serverVars

NextMasking == MaskingCall

SpecMasking == InitMasking /\ [][NextMasking]_vars

\* the per-band entries of the result
BandEntries == analysis.masking_analysis.critical_bands

\* the bands of the result flagged is_masked
MaskedBands == {c \in DOMAIN BandEntries : BandEntries[c].is_masked}

\* C13 as stated: for every input analysed without error the result holds
\* exactly 24 band entries, so total_masked_bands never exceeds 24.
MaskingHas24Bands ==
    (pc = "masking_return" /\ ~track.masking_raises) =>
        /\ Cardinality(DOMAIN BandEntries) = 24
        /\ analysis.masking_analysis.total_masked_bands <= 24

\* C13 as amended: for every input analysed without error the result holds
\* exactly 25 band entries, one for each band of the table, so
\* total_masked_bands never exceeds 25; when the masking analysis fails
\* inside, it holds none and total_masked_bands is 0.
MaskingHas25Bands ==
    pc = "masking_return" =>
        IF track.masking_raises
        THEN /\ DOMAIN BandEntries = {}
             /\ analysis.masking_analysis.total_masked_bands = 0
        ELSE /\ Cardinality(DOMAIN BandEntries) = 25
             /\ analysis.masking_analysis.total_masked_bands
                    = Cardinality({i \in 1 .. 25 : track.band_db[i] < -60})
             /\ analysis.masking_analysis.total_masked_bands <= 25

\* every band of a near-silent input is masked: 25 of them
AllBandsMasked ==
    /\ pc = "masking_return"
    /\ ~track.masking_raises
    /\ \A i \in 1 .. 25 : track.band_db[i] = -200
    /\ analysis.masking_analysis.total_masked_bands = 25

\* C14 as stated: the number of recommendations equals total_masked_bands:
\* one for each masked band, none for an unmasked one.
RecommendationPerMaskedBand ==
    pc = "masking_return" =>
        /\ Len(analysis.masking_analysis.recommendations)
               = analysis.masking_analysis.total_masked_bands
        /\ {analysis.masking_analysis.recommendations[k].boost :
                k \in 1 .. Len(analysis.masking_analysis.recommendations)}
               = MaskedBands

\* C14 as amended: each masked band with a centre above 100 Hz yields
\* exactly one recommendation, and no other band yields one: the number of
\* recommendations is total_masked_bands, less one when the lowest band
\* (20-100 Hz, centre 60 Hz) is masked.
RecommendationPerMaskedBandAbove100 ==
    pc = "masking_return" =>
        LET recommendations == analysis.masking_analysis.recommendations
            boosted == {recommendations[k].boost :
                            k \in 1 .. Len(recommendations)}
        IN  /\ boosted = {c \in MaskedBands : c > 100}
            /\ Len(recommendations) = Cardinality(boosted)
            /\ Len(recommendations)
                   = analysis.masking_analysis.total_masked_bands
                     - (IF 60 \in MaskedBands THEN 1 ELSE 0)

\* the lowest band alone is masked and nothing is recommended
LowestBandMaskedSilently ==
    /\ pc = "masking_return"
    /\ MaskedBands = {60}
    /\ analysis.masking_analysis.total_masked_bands = 1
    /\ analysis.masking_analysis.recommendations = <<>>

(***************************************************************************)
(* analyze_track and the helpers it calls.  A signal is described by       *)
(* what numpy and librosa measure on it: levels in whole dB, the mean FFT  *)
(* magnitude of each frequency band (whole numbers, 0 for silence), the    *)
(* energy of each critical band, the genre features.                       *)
(***************************************************************************)
\* the keys of bands in _analyze_frequency_spectrum
BandNames == {"sub_bass", "bass", "low_mid", "mid", "high_mid", "presence",
              "brilliance"}

\* sum(band_energy.values())
RECURSIVE SumOver(_, _)
SumOver(f, keys) ==
    IF keys = {} THEN 0
    ELSE LET k == CHOOSE x \in keys : TRUE
         IN  f[k] + SumOver(f, keys \ {k})

\* v / total_energy divides by zero when every band energy is 0.0
SpectralBalanceRaises(band_energy) == SumOver(band_energy, BandNames) = 0

\* 'boost' below the low mark, 'cut' above the high mark (marks in
\* hundredths of the total energy)
Suggestion(v, total_energy, low, high) ==
    IF 100 * v < low * total_energy THEN "boost"
    ELSE IF 100 * v > high * total_energy THEN "cut"
    ELSE "neutral"

_calculate_spectral_balance(band_energy) ==
    LET total_energy == SumOver(band_energy, BandNames)
    IN  [bass |-> Suggestion(band_energy["bass"], total_energy, 15, 25),
         mid |-> Suggestion(band_energy["mid"], total_energy, 20, 35),
         brilliance |->
             Suggestion(band_energy["brilliance"], total_energy, 10, 20)]

_analyze_frequency_spectrum(signal) ==
    [frequency_bands |-> signal.band_energy,
     dominant_frequency |-> signal.dominant_frequency,
     spectral_balance |-> _calculate_spectral_balance(signal.band_energy)]

_calculate_loudness(signal) ==
    [rms_db |-> signal.rms_db,
     peak_db |-> signal.peak_db,
     lufs_approx |-> signal.rms_db + 3,
     lufs_integrated |-> signal.lufs_integrated,
     dynamic_range |-> signal.peak_db - signal.rms_db]

\* stands for float('nan'), which np.corrcoef yields for a channel without
\* variance: every comparison with it is false
NaN == -1000000

\* a variant naming the quieter channel
StereoRecommendationsSidesSwapped(m) ==
    (IF m.stereo_width < 10 THEN <<"Very narrow stereo image">>
     ELSE IF m.stereo_width > 200 THEN <<"Overly wide stereo image">>
     ELSE <<>>)
    \o (IF Abs(m.balance) > 10
        THEN IF m.balance > 0
             THEN <<"Stereo imbalance detected - left channel louder">>
             ELSE <<"Stereo imbalance detected - right channel louder">>
        ELSE <<>>)
    \o (IF m.correlation = NaN THEN <<>>
        ELSE IF m.correlation < 70 THEN <<"Low stereo correlation">>
        ELSE IF m.correlation > 95 THEN <<"Very high correlation">>
        ELSE <<>>)
    \o (IF m.phase_coherence < 80
        THEN <<"Phase coherence issues detected">> ELSE <<>>)

\* the recommendations of _analyze_stereo_imaging, in the order of its
\* tests; the measures are in hundredths, and a correlation of NaN
\* compares false both ways
StereoRecommendations(m) ==
    (IF m.stereo_width < 10 THEN <<"Very narrow stereo image">>
     ELSE IF m.stereo_width > 200 THEN <<"Overly wide stereo image">>
     ELSE <<>>)
    \o (IF Abs(m.balance) > 10
        THEN IF m.balance > 0
             THEN <<"Stereo imbalance detected - right channel louder">>
             ELSE <<"Stereo imbalance detected - left channel louder">>
        ELSE <<>>)
    \o (IF m.correlation = NaN THEN <<>>
        ELSE IF m.correlation < 70 THEN <<"Low stereo correlation">>
        ELSE IF m.correlation > 95 THEN <<"Very high correlation">>
        ELSE <<>>)
    \o (IF m.phase_coherence < 80
        THEN <<"Phase coherence issues detected">> ELSE <<>>)

\* a 1-D array is reported as mono; an exception in the stereo measures
\* gives the fallback dictionary, which has no is_mono key
_analyze_stereo_imaging(channels, signal, raises) ==
    IF channels = 1
    THEN [stereo_width |-> 0, correlation |-> 100, balance |-> 0,
          phase_coherence |-> 100,
          recommendations |->
              <<"Track is mono - consider stereo enhancement">>,
          is_mono |-> TRUE]
    ELSE IF raises
    THEN [stereo_width |-> 100, correlation |-> 100, balance |-> 0,
          recommendations |-> <<>>]
    ELSE [stereo_width |-> signal.stereo.stereo_width,
          correlation |-> signal.stereo.correlation,
          balance |-> signal.stereo.balance,
          phase_coherence |-> signal.stereo.phase_coherence,
          recommendations |-> StereoRecommendations(signal.stereo),
          is_mono |-> FALSE]

\* _extract_spectral_features: the means librosa measures
_extract_spectral_features(signal) ==
    [mfcc_mean |-> signal.features.mfcc_mean,
     mfcc_std |-> signal.features.mfcc1_std,
     spectral_centroid_mean |-> signal.features.centroid_mean,
     spectral_rolloff_mean |-> signal.features.rolloff_mean,
     zero_crossing_rate_mean |-> signal.features.zcr_mean]

\* a faulty table: masking and stereo imaging report each other's percent
ProgressTableOutOfOrder ==
    [load |-> <<"Loading audio file", 5>>,
     properties |-> <<"Basic audio properties", 10>>,
     tempo |-> <<"Tempo and beat tracking", 20>>,
     key |-> <<"Key detection", 30>>,
     loudness |-> <<"Loudness analysis", 40>>,
     spectral |-> <<"Spectral features", 50>>,
     frequency |-> <<"Frequency analysis", 60>>,
     masking |-> <<"Frequency masking analysis", 85>>,
     stereo |-> <<"Stereo imaging analysis", 75>>,
     genre |-> <<"Genre prediction", 95>>,
     complete |-> <<"Analysis complete", 100>>]

\* the step and percent passed to progress_callback before each phase
ProgressTable ==
    [load |-> <<"Loading audio file", 5>>,
     properties |-> <<"Basic audio properties", 10>>,
     tempo |-> <<"Tempo and beat tracking", 20>>,
     key |-> <<"Key detection", 30>>,
     loudness |-> <<"Loudness analysis", 40>>,
     spectral |-> <<"Spectral features", 50>>,
     frequency |-> <<"Frequency analysis", 60>>,
     masking |-> <<"Frequency masking analysis", 75>>,
     stereo |-> <<"Stereo imaging analysis", 85>>,
     genre |-> <<"Genre prediction", 95>>,
     complete |-> <<"Analysis complete", 100>>]

\* if progress_callback: progress_callback(step, percent)
Report(phase) ==
    IF track.has_callback
    THEN Append(progress, [step |-> ProgressTable[phase][1],
                           percent |-> ProgressTable[phase][2]])
    ELSE progress

\* one phase of analyze_track: the progress call, then the phase's work.
\* An exception that leaves the phase reaches the except block, which
\* logs and re-raises; one caught inside the phase (caught) is replaced by
\* a default and the analysis goes on.
AnalyzeStep(here, next, raises, caught, locals) ==
    /\ pc = here
    /\ progress' = Report(here)
    /\ stages' = Append(stages, here)
    /\ IF raises
       THEN /\ outcome' = "raised"
            /\ logged' = Append(logged, "analyze_track")
            /\ pc' = "done"
            /\ analysis' = analysis
       ELSE /\ analysis' = locals @@ analysis
            /\ logged' = IF caught THEN Append(logged, here) ELSE logged
            /\ pc' = next
            /\ outcome' = outcome
    /\ UNCHANGED <<track, cancel_at, audio_data, settings, processed_audio,
                   gain_reduction, louder, request, response, heap, arg_ref,
                   ret_ref>>
    /\ UNCHANGED serverVars

\* y, sr = librosa.load(...); y_mono = librosa.to_mono(y)
AnalyzeLoad ==
    /\ AnalyzeStep("load", "properties", track.load_raises, FALSE,
                   [sample_rate |-> 44100, channels |-> track.channels])
    /\ UNCHANGED <<features, genre_scores, prediction>>

\* duration = librosa.get_duration(y=y_mono, sr=sr)
AnalyzeProperties ==
    /\ AnalyzeStep("properties", "tempo", FALSE, FALSE,
                   [duration |-> track.signal.duration])
    /\ UNCHANGED <<features, genre_scores, prediction>>

\* beat tracking inside try/except: tempo = 120.0 when it raises
AnalyzeTempo ==
    /\ AnalyzeStep("tempo", "key", FALSE, FALSE,
                   [tempo |-> IF track.tempo_raises THEN 120
                              ELSE track.tempo_detected])
    /\ UNCHANGED <<features, genre_scores, prediction>>

\* key estimation inside try/except: key = "C" when it raises
AnalyzeKey ==
    /\ AnalyzeStep("key", "loudness", FALSE, FALSE,
                   [key |-> IF track.key_raises THEN "C"
                            ELSE track.key_detected])
    /\ UNCHANGED <<features, genre_scores, prediction>>

AnalyzeLoudness ==
    /\ AnalyzeStep("loudness", "spectral", track.raises_at = "loudness",
                   FALSE, [loudness |-> _calculate_loudness(track.signal)])
    /\ UNCHANGED <<features, genre_scores, prediction>>

AnalyzeSpectral ==
    /\ AnalyzeStep("spectral", "frequency", track.raises_at = "spectral",
                   FALSE,
                   [spectral_features |->
                        _extract_spectral_features(track.signal)])
    /\ UNCHANGED <<features, genre_scores, prediction>>

\* _analyze_frequency_spectrum has no try/except of its own
AnalyzeFrequency ==
    /\ AnalyzeStep("frequency", "masking",
                   SpectralBalanceRaises(track.signal.band_energy), FALSE,
                   [frequency_analysis |->
                        _analyze_frequency_spectrum(track.signal)])
    /\ UNCHANGED <<features, genre_scores, prediction>>

AnalyzeMasking ==
    /\ AnalyzeStep("masking", "stereo", FALSE, track.masking_raises,
                   [masking_analysis |->
                        _analyze_frequency_masking(track.signal.band_db,
                                                   track.masking_raises)])
    /\ UNCHANGED <<features, genre_scores, prediction>>

AnalyzeStereo ==
    /\ AnalyzeStep("stereo", "genre", FALSE,
                   track.channels = 2 /\ track.stereo_raises,
                   [stereo_analysis |->
                        _analyze_stereo_imaging(track.channels, track.signal,
                                                track.stereo_raises)])
    /\ UNCHANGED <<features, genre_scores, prediction>>

\* the features _predict_genre extracts from the signal, or its failure
GenreFeatures ==
    [track.signal.features EXCEPT !.raises = track.genre_raises]

AnalyzeGenre ==
    /\ AnalyzeStep("genre", "complete", FALSE, track.genre_raises,
                   [genre_prediction |-> _predict_genre(GenreFeatures)])
    /\ features' = GenreFeatures
    /\ genre_scores' = IF track.genre_raises THEN <<>>
                       ELSE GenreScores(GenreFeatures)
    /\ prediction' = _predict_genre(GenreFeatures)

\* the dictionary analyze_track returns
AnalysisResult ==
    [duration |-> analysis.duration,
     tempo |-> analysis.tempo,
     key |-> analysis.key,
     loudness |-> analysis.loudness,
     predicted_genre |-> analysis.genre_prediction.genre,
     genre_confidence |-> analysis.genre_prediction.confidence,
     spectral_features |-> analysis.spectral_features,
     frequency_analysis |-> analysis.frequency_analysis,
     masking_analysis |-> analysis.masking_analysis,
     stereo_analysis |-> analysis.stereo_analysis,
     sample_rate |-> analysis.sample_rate,
     channels |-> analysis.channels]

\* progress_callback("Analysis complete", 100); return {...}
AnalyzeComplete ==
    /\ pc = "complete"
    /\ progress' = Report("complete")
    /\ analysis' = [result |-> AnalysisResult] @@ analysis
    /\ outcome' = "returned"
    /\ pc' = "done"
    /\ UNCHANGED <<track, cancel_at, stages, logged, audio_data, settings,
                   processed_audio, gain_reduction, features, genre_scores,
                   prediction, louder, request, response, heap, arg_ref,
                   ret_ref>>
    /\ UNCHANGED serverVars

\* DELETE /tasks/{task_id}: celery_app.control.revoke(task_id,
\* terminate=True), while the analysis task is running.  analyze_track
\* takes no cancellation token and never looks at the request.
CancelTask ==
    /\ pc \notin {"done"}
    /\ cancel_at = -1
    /\ cancel_at' = Len(stages)
    /\ UNCHANGED <<pc, track, analysis, progress, stages, outcome, logged,
                   audio_data, settings, processed_audio, gain_reduction,
                   features, genre_scores, prediction, louder, request,
                   response, heap, arg_ref, ret_ref>>
    /\ UNCHANGED serverVars

\* the revoked task's worker process is terminated, at whatever point the
\* signal reaches it: nothing is returned
WorkerTerminated ==
    /\ pc \notin {"done"}
    /\ cancel_at >= 0
    /\ outcome' = "terminated"
    /\ pc' = "done"
    /\ UNCHANGED <<track, analysis, progress, cancel_at, stages, logged,
                   audio_data, settings, processed_audio, gain_reduction,
                   features, genre_scores, prediction, louder, request,
                   response, heap, arg_ref, ret_ref>>
    /\ UNCHANGED serverVars

(***************************************************************************)
(* The tracks analysed.                                                    *)
(***************************************************************************)
AllBands(v) == [b \in BandNames |-> v]

\* digital silence: every sample 0.0
SilentSignal ==
    [duration |-> 2, rms_db |-> -200, peak_db |-> -200,
     lufs_integrated |-> -101, band_energy |-> AllBands(0),
     dominant_frequency |-> 0,
     band_db |-> [i \in 1 .. Len(critical_bands) |-> -200],
     stereo |-> [stereo_width |-> 0, correlation |-> NaN, balance |-> 0,
                 phase_coherence |-> 100],
     features |-> [raises |-> FALSE, centroid_mean |-> 0, zcr_mean |-> 0,
                   tempo |-> 0, rolloff_mean |-> 0,
                   mfcc_mean |-> <<-10, 0, 0>>, mfcc1_std |-> 0]]

\* a barely audible rumble
FaintSignal ==
    [duration |-> 2, rms_db |-> -90, peak_db |-> -86,
     lufs_integrated |-> -87, band_energy |-> AllBands(1),
     dominant_frequency |-> 60,
     band_db |-> [i \in 1 .. Len(critical_bands) |-> -61],
     stereo |-> [stereo_width |-> 5, correlation |-> 99, balance |-> 0,
                 phase_coherence |-> 100],
     features |-> [raises |-> FALSE, centroid_mean |-> 1000, zcr_mean |-> 30,
                   tempo |-> 0, rolloff_mean |-> 2000,
                   mfcc_mean |-> <<-10, 5, 0>>, mfcc1_std |-> 17]]

\* a bright, wide, full-range mix
BrightSignal ==
    [duration |-> 30, rms_db |-> -18, peak_db |-> -3,
     lufs_integrated |-> -15,
     band_energy |-> [AllBands(10) EXCEPT !["bass"] = 20, !["mid"] = 25,
                                          !["brilliance"] = 25],
     dominant_frequency |-> 1000,
     band_db |-> [i \in 1 .. Len(critical_bands) |-> -30],
     stereo |-> [stereo_width |-> 250, correlation |-> 60, balance |-> 20,
                 phase_coherence |-> 70],
     features |-> [raises |-> FALSE, centroid_mean |-> 2000, zcr_mean |-> 60,
                   tempo |-> 120, rolloff_mean |-> 3200,
                   mfcc_mean |-> <<10, 5, 101>>, mfcc1_std |-> 21]]

\* a bass-heavy mix with nothing above 6.4 kHz
DullSignal ==
    [duration |-> 30, rms_db |-> -12, peak_db |-> -1,
     lufs_integrated |-> -10,
     band_energy |-> [AllBands(5) EXCEPT !["bass"] = 40, !["mid"] = 10,
                                         !["brilliance"] = 0],
     dominant_frequency |-> 60,
     band_db |-> [i \in 1 .. Len(critical_bands) |->
                     IF i > 20 THEN -61 ELSE -30],
     stereo |-> [stereo_width |-> 50, correlation |-> 80, balance |-> 0,
                 phase_coherence |-> 100],
     features |-> [raises |-> FALSE, centroid_mean |-> 1200, zcr_mean |-> 30,
                   tempo |-> 95, rolloff_mean |-> 2000,
                   mfcc_mean |-> <<10, 0, -1>>, mfcc1_std |-> 17]]

Signals == {SilentSignal, FaintSignal, BrightSignal, DullSignal}

\* beat tracking: raising, or detecting 0 (no onsets), 120 or 240 BPM
TempoOutcomes == {<<TRUE, 0>>, <<FALSE, 0>>, <<FALSE, 120>>, <<FALSE, 240>>}

\* key detection: raising, or detecting C or A
KeyOutcomes == {<<TRUE, "C">>, <<FALSE, "C">>, <<FALSE, "A">>}

Tracks ==
    {[load_raises |-> lr, channels |-> ch, signal |-> sg,
      tempo_raises |-> t[1], tempo_detected |-> t[2],
      key_raises |-> k[1], key_detected |-> k[2],
      raises_at |-> ra, masking_raises |-> mr, stereo_raises |-> sr,
      genre_raises |-> gr, has_callback |-> cb] :
        lr \in {FALSE}, ch \in {1, 2}, sg \in Signals, t \in TempoOutcomes,
        k \in KeyOutcomes, ra \in {"none", "loudness", "spectral"},
        mr \in BOOLEAN, sr \in BOOLEAN, gr \in BOOLEAN, cb \in BOOLEAN}
    \cup
    {[load_raises |-> TRUE, channels |-> 1, signal |-> SilentSignal,
      tempo_raises |-> FALSE, tempo_detected |-> 0,
      key_raises |-> FALSE, key_detected |-> "C",
      raises_at |-> "none", masking_raises |-> FALSE,
      stereo_raises |-> FALSE, genre_raises |-> FALSE,
      has_callback |-> cb] : cb \in BOOLEAN}

InitAnalyze ==
    /\ pc = "load"
    /\ track \in Tracks
    /\ analysis = <<>>
    /\ progress = <<>>
    /\ cancel_at = -1
    /\ stages = <<>>
    /\ outcome = "none"
    /\ logged = <<>>
    /\ ChainIdle
    /\ GenreIdle
    /\ RestIdle
    /\ ServerIdle

NextAnalyze ==
    \/ AnalyzeLoad
    \/ AnalyzeProperties
    \/ AnalyzeTempo
    \/ AnalyzeKey
    \/ AnalyzeLoudness
    \/ AnalyzeSpectral
    \/ AnalyzeFrequency
    \/ AnalyzeMasking
    \/ AnalyzeStereo
    \/ AnalyzeGenre
    \/ AnalyzeComplete
    \/ CancelTask
    \/ WorkerTerminated

SpecAnalyze == InitAnalyze /\ [][NextAnalyze]_vars

\* the analysis was not cancelled and no library call raised on the track
AnalyzedUndisturbed ==
    /\ cancel_at = -1
    /\ ~track.load_raises
    /\ track.raises_at = "none"

\* C12: the analysis of an all-zero buffer completes and returns a full
\* result; a total band energy of zero in the spectral-balance step does
\* not abort it.
SilenceIsAnalyzed ==
    (pc = "done" /\ track.signal = SilentSignal /\ AnalyzedUndisturbed) =>
        /\ outcome = "returned"
        /\ "result" \in DOMAIN analysis

\* C15: when a default was substituted for a failed sub-feature (tempo
\* 120, key C, the fallback genre), the result carries a flag recording it.
DefaultsAreFlagged ==
    (pc = "done" /\ outcome = "returned") =>
        /\ track.tempo_raises =>
               /\ "tempo_defaulted" \in DOMAIN analysis.result
               /\ analysis.result.tempo_defaulted
        /\ track.key_raises =>
               /\ "key_defaulted" \in DOMAIN analysis.result
               /\ analysis.result.key_defaulted
        /\ track.genre_raises =>
               /\ "genre_defaulted" \in DOMAIN analysis.result
               /\ analysis.result.genre_defaulted

\* the percent values reported so far
Percents == [i \in 1 .. Len(progress) |-> progress[i].percent]

\* the values are non-decreasing and within 0..100, and 100 is reported
\* only after genre prediction has completed
ProgressWellFormed ==
    /\ \A i \in 1 .. Len(Percents) : Percents[i] \in 0 .. 100
    /\ \A i \in 1 .. Len(Percents) - 1 : Percents[i] <= Percents[i + 1]
    /\ (\E i \in 1 .. Len(Percents) : Percents[i] = 100) =>
           /\ "genre" \in {stages[i] : i \in 1 .. Len(stages)}
           /\ "genre_prediction" \in DOMAIN analysis
           /\ prediction # <<>>

\* the phase raised an exception, whether analyze_track caught it or not
PhaseFailed(phase) ==
    CASE phase = "load" -> track.load_raises
      [] phase = "tempo" -> track.tempo_raises
      [] phase = "key" -> track.key_raises
      [] phase = "loudness" -> track.raises_at = "loudness"
      [] phase = "spectral" -> track.raises_at = "spectral"
      [] phase = "frequency" ->
             SpectralBalanceRaises(track.signal.band_energy)
      [] phase = "masking" -> track.masking_raises
      [] phase = "stereo" -> track.channels = 2 /\ track.stereo_raises
      [] phase = "genre" -> track.genre_raises
      [] OTHER -> FALSE

SomePhaseFailed == \E i \in 1 .. Len(stages) : PhaseFailed(stages[i])

\* C16 as stated: the percent values are non-decreasing within 0..100, 100
\* is reported only after genre prediction has completed, and once a
\* phase has failed no further progress value is reported.
ProgressStopsAfterFailure ==
    /\ []ProgressWellFormed
    /\ [][SomePhaseFailed => progress' = progress]_vars

\* C16 as amended: the percent values are non-decreasing within 0..100,
\* 100 is reported only after genre prediction has completed, and once a
\* phase has failed in a way that aborts the analysis (load, loudness,
\* spectral features, frequency analysis) no further value is reported:
\* the last value is the failed phase's own and 100 is never reached.  A
\* failure the analysis tolerates (tempo, key, masking, stereo imaging,
\* genre) does not stop the reports.
ProgressStopsAfterAbort ==
    /\ [](/\ ProgressWellFormed
          /\ (outcome = "raised" /\ track.has_callback) =>
                 /\ Percents[Len(Percents)]
                        = ProgressTable[stages[Len(stages)]][2]
                 /\ Percents[Len(Percents)] < 100
          /\ (outcome = "returned" /\ track.has_callback) =>
                 Percents = <<5, 10, 20, 30, 40, 50, 60, 75, 85, 95, 100>>)
    /\ [][outcome = "raised" => progress' = progress]_vars

\* tempo detection failed and every value up to 100 was still reported
ProgressCompleteDespiteTempoFailure ==
    /\ pc = "done"
    /\ outcome = "returned"
    /\ track.tempo_raises
    /\ analysis.result.tempo = 120
    /\ Percents = <<5, 10, 20, 30, 40, 50, 60, 75, 85, 95, 100>>

\* C17: when cancellation is requested during the analysis, the analysis
\* stops at the next phase boundary: no later phase is run, Cancelled is
\* returned and no result.
CancelStopsAtPhaseBoundary ==
    cancel_at >= 0 =>
        /\ Len(stages) = cancel_at
        /\ "result" \notin DOMAIN analysis
        /\ pc = "done" => outcome = "cancelled"

(***************************************************************************)
(* The compressor on an input and on a louder copy of it: one buffer of    *)
(* one row, then the same buffer with every sample multiplied by a gain    *)
(* k > 1, under the same settings.                                         *)
(***************************************************************************)
\* samples of ordinary size, and samples at the scale of the 1e-10
CompressorSamples ==
    {RZero, RMul(Eps, Rat(1, 4)), Eps, Rat(1, 4), Rat(-1, 2), ROne}

CompressorInputs ==
    {Mono1D(c) : c \in UNION {SeqsOf(CompressorSamples, n) : n \in 1 .. MaxLen}}

\* settings in range: ratio >= 1
CompressorSettings ==
    [threshold : {RInt(-12), RInt(-6)},
     ratio : {ROne, RInt(4)},
     attack : {Ms(2)},
     release : {Ms(2), Ms(6)},
     makeup_gain : {RZero, RInt(3)}]

\* the factors k > 1
LouderGains == {RInt(2), RInt(4)}

\* k * x
Scaled(audio, k) ==
    [audio EXCEPT !.ch = [c \in 1 .. Len(audio.ch) |->
                             [i \in 1 .. Len(audio.ch[c]) |->
                                 RMul(k, audio.ch[c][i])]]]

InitCompressor ==
    /\ pc = "compress_call"
    /\ audio_data \in CompressorInputs
    /\ settings \in {[compression_settings |-> cs] : cs \in CompressorSettings}
    /\ processed_audio = EmptyBuffer
    /\ gain_reduction = <<>>
    /\ stages = <<>>
    /\ outcome = "none"
    /\ logged = <<>>
    /\ GenreIdle
    /\ OthersIdle
    /\ ServerIdle

\* apply_compression(x, settings)
CompressCall ==
    /\ pc = "compress_call"
    /\ processed_audio' =
          apply_compression(audio_data, settings.compression_settings)
    /\ stages' = Append(stages, "compression")
    /\ pc' = "compress_louder"
    /\ UNCHANGED <<audio_data, settings, gain_reduction, outcome, logged,
                   features, genre_scores, prediction>>
    /\ UNCHANGED otherVars
    /\ UNCHANGED serverVars

\* apply_compression(k * x, settings)
CompressLouder ==
    /\ pc = "compress_louder"
    /\ \E k \in LouderGains :
          louder' = [gain |-> k,
                     audio |-> Scaled(audio_data, k),
                     processed |->
                         apply_compression(Scaled(audio_data, k),
                                           settings.compression_settings)]
    /\ stages' = Append(stages, "compression")
    /\ outcome' = "returned"
    /\ pc' = "compress_return"
    /\ UNCHANGED <<audio_data, settings, processed_audio, gain_reduction,
                   logged, features, genre_scores, prediction, track,
                   analysis, progress, cancel_at, request, response, heap,
                   arg_ref, ret_ref>>
    /\ UNCHANGED serverVars

NextCompressor == CompressCall \/ CompressLouder

SpecCompressor == InitCompressor /\ [][NextCompressor]_vars

\* C18: for fixed settings with ratio >= 1, every output sample of the
\* louder input k * x, k > 1, has a magnitude greater than or equal to
\* that of the corresponding output sample of x, the attack/release
\* envelope included.
CompressorIsMonotone ==
    pc = "compress_return" =>
        \A i \in 1 .. Len(audio_data.ch[1]) :
            RLe(RAbs(processed_audio.ch[1][i]),
                RAbs(louder.processed.ch[1][i]))

\* the smoothed gain reduction of the one row of the input
SmoothedGainReduction ==
    LET cs == settings.compression_settings
    IN  _apply_envelope(StaticGainReduction(audio_data.ch[1], cs.threshold,
                                            cs.ratio),
                        cs.attack, cs.release)

\* the largest instantaneous gain reduction among the first n samples
RECURSIVE LargestSoFar(_, _)
LargestSoFar(signal_db, n) ==
    IF n = 0 THEN RZero
    ELSE LET m == LargestSoFar(signal_db, n - 1)
         IN  IF RLt(m, signal_db[n]) THEN signal_db[n] ELSE m

\* the envelope lies between 0 and the largest gain reduction seen so far
EnvelopeWithinLargestSoFar ==
    LET cs == settings.compression_settings
        instantaneous == StaticGainReduction(audio_data.ch[1], cs.threshold,
                                             cs.ratio)
    IN  \A i \in 1 .. Len(audio_data.ch[1]) :
            /\ RLe(RZero, SmoothedGainReduction[i])
            /\ RLe(SmoothedGainReduction[i], LargestSoFar(instantaneous, i))

\* every output sample has the sign of its input sample
CompressorKeepsSign ==
    \A i \in 1 .. Len(audio_data.ch[1]) :
        RSign(processed_audio.ch[1][i]) = RSign(audio_data.ch[1][i])

\* no output sample is larger in magnitude than its input sample
CompressorOnlyAttenuates ==
    \A i \in 1 .. Len(audio_data.ch[1]) :
        RLe(RAbs(processed_audio.ch[1][i]), RAbs(audio_data.ch[1][i]))

\* C27: for ratio >= 1 the smoothed gain reduction is at every sample
\* between 0 and the largest instantaneous gain reduction seen so far in
\* the channel; hence with makeup_gain = 0 no output sample has a larger
\* magnitude than its input sample, and every output sample keeps the sign
\* of its input sample.
CompressorNeverAmplifies ==
    pc \in {"compress_louder", "compress_return"} =>
        /\ EnvelopeWithinLargestSoFar
        /\ settings.compression_settings.makeup_gain = RZero =>
               /\ CompressorOnlyAttenuates
               /\ CompressorKeepsSign

(***************************************************************************)
(* Genre presets: MasteringEngine.get_genre_preset and the endpoint        *)
(* GET /{track_id}/preset/{genre} that serves it.                          *)
(***************************************************************************)
Band(frequency, gain, q) ==
    [frequency |-> RInt(frequency), gain |-> gain, q |-> q, type |-> "peak"]

presets ==
    [rock |->
        [eq_settings |->
            [bands |-> <<Band(100, RInt(2), Rat(7, 10)),
                         Band(3000, RInt(-2), ROne),
                         Band(10000, RInt(3), Rat(7, 10))>>],
         compression_settings |->
            [threshold |-> RInt(-8), ratio |-> RInt(4), attack |-> Ms(3),
             release |-> Ms(100), makeup_gain |-> RInt(3)],
         saturation_settings |->
            [drive |-> Rat(3, 2), type |-> "tube", mix |-> Rat(3, 10)],
         limiting_settings |-> [ceiling |-> Rat(-3, 10), release |-> Ms(50)]],
     electronic |->
        [eq_settings |->
            [bands |-> <<Band(60, RInt(4), Rat(7, 10)),
                         Band(8000, RInt(2), Rat(7, 10))>>],
         compression_settings |->
            [threshold |-> RInt(-6), ratio |-> RInt(6), attack |-> Ms(1),
             release |-> Ms(50), makeup_gain |-> RInt(2)],
         stereo_settings |-> [width |-> Rat(13, 10)],
         limiting_settings |-> [ceiling |-> Rat(-1, 10), release |-> Ms(30)]],
     jazz |->
        [eq_settings |->
            [bands |-> <<Band(200, ROne, Rat(1, 2)),
                         Band(5000, Rat(3, 2), Rat(7, 10))>>],
         compression_settings |->
            [threshold |-> RInt(-15), ratio |-> Rat(5, 2), attack |-> Ms(10),
             release |-> Ms(200), makeup_gain |-> ROne],
         saturation_settings |->
            [drive |-> Rat(11, 10), type |-> "tape", mix |-> Rat(1, 5)],
         limiting_settings |-> [ceiling |-> RInt(-1), release |-> Ms(100)]]]

\* the fallback is another preset than rock
get_genre_preset_default_electronic(genre) ==
    IF genre \in DOMAIN presets THEN presets[genre] ELSE presets["electronic"]

\* presets.get(genre, presets['rock']): the lookup is by the exact string
get_genre_preset(genre) ==
    IF genre \in DOMAIN presets THEN presets[genre] ELSE presets["rock"]

\* the classifier's five genres, and names no preset and no classifier has
GenreNames == Genres \cup {"Rock", "JAZZ", "", "classical", "unknown"}

TrackIds == 1 .. 3

\* the request, with the ids of the tracks the database holds
PresetRequests == [track_id : TrackIds, genre : GenreNames, tracks : SUBSET TrackIds]

InitPreset ==
    /\ pc = "preset_request"
    /\ request \in PresetRequests
    /\ response = <<>>
    /\ track = <<>>
    /\ analysis = <<>>
    /\ progress = <<>>
    /\ cancel_at = -1
    /\ louder = <<>>
    /\ heap = <<>>
    /\ arg_ref = 0
    /\ ret_ref = 0
    /\ stages = <<>>
    /\ outcome = "none"
    /\ logged = <<>>
    /\ ChainIdle
    /\ GenreIdle
    /\ ServerIdle

\* the endpoint: 404 when the track is not in the database
PresetEndpoint ==
    /\ pc = "preset_request"
    /\ IF request.track_id \notin request.tracks
       THEN /\ response' = [status_code |-> 404, detail |-> "Track not found"]
            /\ outcome' = "raised"
       ELSE /\ response' = [status_code |-> 200,
                            track_id |-> request.track_id,
                            genre |-> request.genre,
                            preset |-> get_genre_preset(request.genre)]
            /\ outcome' = "returned"
    /\ pc' = "preset_return"
    /\ UNCHANGED <<request, track, analysis, progress, cancel_at, louder, heap,
                   arg_ref, ret_ref, stages, logged, audio_data, settings,
                   processed_audio, gain_reduction, features, genre_scores,
                   prediction>>
    /\ UNCHANGED serverVars

NextPreset == PresetEndpoint

SpecPreset == InitPreset /\ [][NextPreset]_vars

\* the preset that was served
ServedPreset == response.preset

\* C19: the preset served for rock, electronic or jazz is the preset of
\* that name, and for every other name, pop and hip-hop included, it is
\* the rock preset (compression threshold -8 dB at 4:1, tube saturation,
\* ceiling -0.3 dB).
PresetFallsBackToRock ==
    (pc = "preset_return" /\ outcome = "returned") =>
        /\ request.genre = "electronic" =>
               /\ ServedPreset = presets.electronic
               /\ ServedPreset.stereo_settings.width = Rat(13, 10)
        /\ request.genre = "jazz" =>
               /\ ServedPreset = presets.jazz
               /\ ServedPreset.saturation_settings.type = "tape"
        /\ request.genre \notin {"electronic", "jazz"} =>
               /\ ServedPreset = presets.rock
               /\ ServedPreset.compression_settings.threshold = RInt(-8)
               /\ ServedPreset.compression_settings.ratio = RInt(4)
               /\ ServedPreset.saturation_settings.type = "tube"
               /\ ServedPreset.limiting_settings.ceiling = Rat(-3, 10)
               /\ Len(ServedPreset.eq_settings.bands) = 3

\* a genre the classifier outputs and no preset exists for
HipHopServedRock ==
    /\ pc = "preset_return"
    /\ request.genre = "hip-hop"
    /\ outcome = "returned"
    /\ ServedPreset.saturation_settings.drive = Rat(3, 2)
    /\ "stereo_settings" \notin DOMAIN ServedPreset

(***************************************************************************)
(* Array objects.  heap[r] is the content of the numpy array with          *)
(* reference r; a call is given the reference of the caller's buffer and   *)
(* returns a reference.  An operation on arrays yields the heap after it   *)
(* and the reference it evaluates to.  Arrays that only hold intermediate  *)
(* values (mid, side, audio_db, gain_reduction) are not kept: none of     *)
(* them shares memory with another array.                                  *)
(***************************************************************************)
\* a new array: np.array([...]), np.zeros_like, the result of arithmetic
NewArray(h, value) == [heap |-> Append(h, value), ref |-> Len(h) + 1]

\* `return audio`: the very object that was passed in
Same(h, a) == [heap |-> h, ref |-> a]

\* a faulty copy: another name for the same object
CopyAliased(h, a) == Same(h, a)

\* audio.copy(), np.copy(audio)
Copy(h, a) == NewArray(h, h[a])

\* assignment into the array s.ref: x[c] = ..., x *= ...
Written(s, rows) ==
    [heap |-> [s.heap EXCEPT ![s.ref].ch = rows], ref |-> s.ref]

zeros_like(audio) ==
    [audio EXCEPT !.ch = [c \in 1 .. Len(audio.ch) |->
                             [i \in 1 .. Len(audio.ch[c]) |-> RZero]]]

\* processed = audio.copy(); each band that is applied yields a new array
eq_buffers(h, a, eq_settings) ==
    IF EqRaises(eq_settings) THEN Same(h, a)
    ELSE LET processed == Copy(h, a)
             result == apply_eq(h[a], eq_settings)
         IN  IF result = h[a] THEN processed
             ELSE NewArray(processed.heap, result)

\* compressed_linear is a new array and `compressed_linear *= ...` scales
\* it in place; for a 2-D input the rows are stored into np.zeros_like
compression_buffers(h, a, comp_settings) ==
    IF CompressionRaises(comp_settings) THEN Same(h, a)
    ELSE LET makeup_gain == Get(comp_settings, "makeup_gain", RZero)
             unscaled == apply_compression(
                             h[a], ("makeup_gain" :> RZero) @@ comp_settings)
             result == apply_compression(h[a], comp_settings)
             compressed_linear ==
                 IF makeup_gain # RZero
                 THEN Written(NewArray(h, unscaled), result.ch)
                 ELSE NewArray(h, unscaled)
         IN  IF h[a].ndim > 1
             THEN Written(NewArray(compressed_linear.heap, zeros_like(h[a])),
                          result.ch)
             ELSE compressed_linear

\* audio * (1 - mix) + saturated * mix
saturation_buffers(h, a, sat_settings) ==
    IF SaturationRaises(sat_settings) THEN Same(h, a)
    ELSE NewArray(h, apply_saturation(h[a], sat_settings))

\* stereo_audio is np.array([...]) or audio.copy(); rows 0 and 1 of it are
\* then assigned mid + side and mid - side
stereo_buffers(h, a, stereo_settings) ==
    LET audio == h[a]
        width == Get(stereo_settings, "width", ROne)
        stereo_audio ==
            IF audio.ndim = 1 \/ Rows(audio) = 1
            THEN NewArray(h, Array2D(StereoRows(audio)))
            ELSE Copy(h, a)
        rows == stereo_audio.heap[stereo_audio.ref].ch
    IN  IF StereoRaises(stereo_settings)
        THEN IF audio.ndim = 1
             THEN NewArray(stereo_audio.heap,
                           Array2D(<<audio.ch[1], audio.ch[1]>>))
             ELSE Same(stereo_audio.heap, a)
        ELSE IF width # ROne /\ Len(rows) >= 2
        THEN Written(stereo_audio, MidSide(rows[1], rows[2], width))
        ELSE stereo_audio

\* limited = np.copy(audio), then limited = limited * gain_reduction; for a
\* 2-D input the rows are stored into np.zeros_like
limiting_buffers(h, a, limit_settings) ==
    IF LimitingRaises(limit_settings) THEN Same(h, a)
    ELSE LET limited == Copy(h, a)
             result == apply_limiting(h[a], limit_settings)
         IN  IF h[a].ndim > 1
             THEN Written(NewArray(limited.heap, zeros_like(h[a])), result.ch)
             ELSE NewArray(limited.heap, result)

\* one `if settings.get(key): processed_audio = stage(processed_audio, ...)`
\* of the chain, staged being what the stage yields
ChainStage(s, key, staged) ==
    IF SectionPresent(settings, key) THEN staged ELSE s

\* compression with a makeup gain, and one that raises
MakeupOptions ==
    {[threshold |-> RInt(-6), ratio |-> RInt(2), attack |-> Ms(2),
      release |-> Ms(4), makeup_gain |-> RInt(6)],
     [threshold |-> RInt(-6), ratio |-> RZero, attack |-> Ms(2),
      release |-> Ms(4), makeup_gain |-> RInt(6)]}

BufferSettings ==
    {MakeSettings(e, c, s, st, l) :
        e \in EqOptions, c \in MakeupOptions, s \in SaturationOptions,
        st \in StereoOptions \cup {Absent}, l \in LimitingOptions}

InitBuffers ==
    /\ pc = "buffer_call"
    /\ audio_data \in ChainInputs
    /\ settings \in BufferSettings
    /\ heap = <<audio_data>>
    /\ arg_ref = 1
    /\ ret_ref = 0
    /\ processed_audio = EmptyBuffer
    /\ gain_reduction = <<>>
    /\ stages = <<>>
    /\ outcome = "none"
    /\ logged = <<>>
    /\ track = <<>>
    /\ analysis = <<>>
    /\ progress = <<>>
    /\ cancel_at = -1
    /\ louder = <<>>
    /\ request = <<>>
    /\ response = <<>>
    /\ GenreIdle
    /\ ServerIdle

\* a call of the engine on the caller's buffer, yielding returned
BufferCall(name, returned) ==
    /\ pc = "buffer_call"
    /\ heap' = returned.heap
    /\ ret_ref' = returned.ref
    /\ processed_audio' = returned.heap[returned.ref]
    /\ stages' = <<name>>
    /\ outcome' = "returned"
    /\ pc' = "buffer_return"
    /\ UNCHANGED <<audio_data, settings, arg_ref, gain_reduction, logged,
                   track, analysis, progress, cancel_at, louder, request,
                   response, features, genre_scores, prediction>>
    /\ UNCHANGED serverVars

BufferEq ==
    /\ pc = "buffer_call"
    /\ BufferCall("eq", eq_buffers(heap, arg_ref, Section(settings, "eq_settings")))

BufferCompression ==
    /\ pc = "buffer_call"
    /\ BufferCall("compression",
               compression_buffers(heap, arg_ref,
                                   Section(settings, "compression_settings")))

BufferSaturation ==
    /\ pc = "buffer_call"
    /\ BufferCall("saturation",
               saturation_buffers(heap, arg_ref,
                                  Section(settings, "saturation_settings")))

BufferStereo ==
    /\ pc = "buffer_call"
    /\ BufferCall("stereo",
               stereo_buffers(heap, arg_ref, Section(settings, "stereo_settings")))

BufferLimiting ==
    /\ pc = "buffer_call"
    /\ BufferCall("limiting",
               limiting_buffers(heap, arg_ref,
                                Section(settings, "limiting_settings")))

\* apply_mastering_chain: processed_audio = audio_data.copy(), then the
\* stages in the order of the code, each on what the one before returned
BufferMaster ==
    /\ pc = "buffer_call"
    /\ \E s0 \in {Copy(heap, arg_ref)} :
       \E s1 \in {ChainStage(s0, "eq_settings",
                      eq_buffers(s0.heap, s0.ref,
                                 Section(settings, "eq_settings")))} :
       \E s2 \in {ChainStage(s1, "compression_settings",
                      compression_buffers(s1.heap, s1.ref,
                          Section(settings, "compression_settings")))} :
       \E s3 \in {ChainStage(s2, "saturation_settings",
                      saturation_buffers(s2.heap, s2.ref,
                          Section(settings, "saturation_settings")))} :
       \E s4 \in {ChainStage(s3, "stereo_settings",
                      stereo_buffers(s3.heap, s3.ref,
                          Section(settings, "stereo_settings")))} :
           BufferCall("master",
                      ChainStage(s4, "limiting_settings",
                          limiting_buffers(s4.heap, s4.ref,
                              Section(settings, "limiting_settings"))))

NextBuffers ==
    \/ BufferEq
    \/ BufferCompression
    \/ BufferSaturation
    \/ BufferStereo
    \/ BufferLimiting
    \/ BufferMaster

SpecBuffers == InitBuffers /\ [][NextBuffers]_vars

\* C20: after a call of master or of a single stage the caller's buffer
\* holds exactly the samples it held before the call, also when the stereo
\* width, a makeup gain or the limiter was applied.
InputBufferUnmodified ==
    pc = "buffer_return" => heap[arg_ref] = audio_data

\* the stereo stage rewrote both rows of a two-row input with a width
\* other than 1, in an array of its own
StereoWroteItsOwnCopy ==
    /\ pc = "buffer_return"
    /\ stages = <<"stereo">>
    /\ Rows(audio_data) = 2
    /\ audio_data.ch[1] # audio_data.ch[2]
    /\ Get(Section(settings, "stereo_settings"), "width", ROne) = Rat(3, 2)
    /\ ret_ref # arg_ref
    /\ heap[ret_ref] # audio_data
    /\ heap[arg_ref] = audio_data

callFrame == <<audio_data, settings, processed_audio, gain_reduction, stages,
               logged, features, genre_scores, prediction, track, analysis,
               progress, cancel_at, louder, heap, arg_ref, ret_ref, database,
               files, workers>>

CallIdle ==
    /\ ChainIdle
    /\ GenreIdle
    /\ ServerIdle
    /\ stages = <<>>
    /\ logged = <<>>
    /\ track = <<>>
    /\ analysis = <<>>
    /\ progress = <<>>
    /\ cancel_at = -1
    /\ louder = <<>>
    /\ heap = <<>>
    /\ arg_ref = 0
    /\ ret_ref = 0
    /\ response = <<>>
    /\ outcome = "none"

(***************************************************************************)
(* The adjustment of threshold and ratio to a target dynamic range, as     *)
(* apply_compression calls it.                                             *)
(***************************************************************************)
\* the dynamic range measured and the one aimed at, in dB
CurrentDrValues == {RInt(k) : k \in {0, 5, 7, 8, 9, 10, 13, 25, 40}}

TargetDrValues == {RInt(8), RInt(10), RInt(30)}

\* starting ratios, all >= 1
StartRatios == {ROne, RInt(2), RInt(4), RInt(8), RInt(20)}

OptimizeRequests ==
    [current_dr : CurrentDrValues, target_dr : TargetDrValues,
     threshold : {RInt(-12), RInt(-6)}, ratio : StartRatios]

InitOptimize ==
    /\ pc = "optimize_call"
    /\ request \in OptimizeRequests
    /\ CallIdle

\* threshold, ratio = self._optimize_compression_for_dr(current_dr,
\* target_dr, threshold, ratio)
OptimizeCall ==
    /\ pc = "optimize_call"
    /\ response' = _optimize_compression_for_dr(
                       request.current_dr, request.target_dr,
                       request.threshold, request.ratio)
    /\ outcome' = "returned"
    /\ pc' = "optimize_return"
    /\ UNCHANGED request
    /\ UNCHANGED callFrame

NextOptimize == OptimizeCall

SpecOptimize == InitOptimize /\ [][NextOptimize]_vars

\* D = current - target
DrDifference == RSub(request.current_dr, request.target_dr)

RMax(a, b) == IF RLe(a, b) THEN b ELSE a

\* C22 as stated: for |D| <= 2 threshold and ratio are unchanged; otherwise
\* the threshold moves by min(|D| * 0.5, 6), down for D > 0 and up for
\* D < 0, the ratio is multiplied by 1 + D * 0.1 or by 1 - |D| * 0.05 and
\* clamped, and it ends in [1.5, 10].
DrAdjustmentSymmetric ==
    pc = "optimize_return" =>
        LET D == DrDifference
            step == RMin(RMul(RAbs(D), Rat(1, 2)), RInt(6))
            factor == IF RLt(RZero, D) THEN RAdd(ROne, RMul(D, Rat(1, 10)))
                      ELSE RSub(ROne, RMul(RAbs(D), Rat(5, 100)))
        IN  IF RLe(RAbs(D), RInt(2))
            THEN response = <<request.threshold, request.ratio>>
            ELSE /\ response[1] = IF RLt(RZero, D)
                                  THEN RSub(request.threshold, step)
                                  ELSE RAdd(request.threshold, step)
                 /\ response[2] = RMax(Rat(3, 2),
                                       RMin(RMul(request.ratio, factor),
                                            RInt(10)))
                 /\ RLe(Rat(3, 2), response[2])
                 /\ RLe(response[2], RInt(10))

\* C22 as amended: for |D| <= 2 threshold and ratio are unchanged; for
\* D > 2 the threshold is lowered by min(D * 0.5, 6) and the ratio becomes
\* min(ratio * (1 + D * 0.1), 10), at most 10; for D < -2 the threshold is
\* raised by min(|D| * 0.3, 4) and the ratio becomes
\* max(ratio * (1 - |D| * 0.05), 1.5), at least 1.5.
DrAdjustmentOneSided ==
    pc = "optimize_return" =>
        LET D == DrDifference
        IN  /\ RLe(RAbs(D), RInt(2)) =>
                   response = <<request.threshold, request.ratio>>
            /\ RLt(RInt(2), D) =>
                   /\ response[1] =
                          RSub(request.threshold,
                               RMin(RMul(D, Rat(1, 2)), RInt(6)))
                   /\ response[2] =
                          RMin(RMul(request.ratio,
                                    RAdd(ROne, RMul(D, Rat(1, 10)))),
                               RInt(10))
                   /\ RLe(response[2], RInt(10))
            /\ RLt(D, RInt(-2)) =>
                   /\ response[1] =
                          RAdd(request.threshold,
                               RMin(RMul(RAbs(D), Rat(3, 10)), RInt(4)))
                   /\ response[2] =
                          RMax(RMul(request.ratio,
                                    RSub(ROne, RMul(RAbs(D), Rat(5, 100)))),
                               Rat(3, 2))
                   /\ RLe(Rat(3, 2), response[2])

\* the range is 5 dB below the target: the threshold went up by 1.5 dB
ThresholdRaisedByThreeTenths ==
    /\ pc = "optimize_return"
    /\ DrDifference = RInt(-5)
    /\ response[1] = RAdd(request.threshold, Rat(3, 2))
    /\ request.ratio = RInt(4)
    /\ response[2] = RInt(3)

(***************************************************************************)
(* apply_eq on its own, with the bands handed to _apply_eq_band recorded   *)
(* in stages by their position in the list.                                *)
(***************************************************************************)
\* peak and shelf bands with a gain above, at and below 0.1 dB, and
\* lowpass / highpass bands with a gain, with gain 0 and without the field
EqBands ==
    {[frequency |-> RInt(100), gain |-> RInt(3), q |-> ROne, type |-> "peak"],
     [frequency |-> RInt(100), gain |-> Rat(1, 20), q |-> ROne, type |-> "peak"],
     [frequency |-> RInt(100), gain |-> Rat(-1, 10), q |-> ROne, type |-> "peak"],
     [frequency |-> RInt(100), gain |-> Rat(1, 20), type |-> "low_shelf"],
     [frequency |-> RInt(100), gain |-> RInt(3), type |-> "lowpass"],
     [frequency |-> RInt(100), type |-> "lowpass"],
     [frequency |-> RInt(100), gain |-> RZero, type |-> "highpass"]}

EqBandLists == SeqsOf(EqBands, 1) \cup SeqsOf(EqBands, 2)

\* the positions of the bands for which _apply_eq_band is called, in the
\* order of the loop
AppliedBands(bands) ==
    SelectSeq([k \in 1 .. Len(bands) |-> k], LAMBDA k : BandApplied(bands[k]))

InitEq ==
    /\ pc = "eq_call"
    /\ audio_data \in {Mono1D(c) : c \in SeqsOf(ChainSamples, 2)}
    /\ settings \in {[eq_settings |-> [bands |-> b]] : b \in EqBandLists}
    /\ processed_audio = EmptyBuffer
    /\ gain_reduction = <<>>
    /\ stages = <<>>
    /\ outcome = "none"
    /\ logged = <<>>
    /\ GenreIdle
    /\ OthersIdle
    /\ ServerIdle

EqCall ==
    /\ pc = "eq_call"
    /\ processed_audio' = apply_eq(audio_data, settings.eq_settings)
    /\ stages' = IF EqRaises(settings.eq_settings) THEN stages
                 ELSE AppliedBands(settings.eq_settings.bands)
    /\ logged' = IF EqRaises(settings.eq_settings) THEN Append(logged, "eq")
                 ELSE logged
    /\ outcome' = "returned"
    /\ pc' = "eq_return"
    /\ UNCHANGED <<audio_data, settings, gain_reduction, features,
                   genre_scores, prediction>>
    /\ UNCHANGED otherVars
    /\ UNCHANGED serverVars

NextEq == EqCall

SpecEq == InitEq /\ [][NextEq]_vars

\* a peak or shelf band with |gain| < 0.1 dB
QuietPeakOrShelf(band) ==
    /\ Get(band, "type", "peak") \in {"peak", "low_shelf", "high_shelf"}
    /\ RLt(RAbs(Get(band, "gain", RZero)), Rat(1, 10))

\* C23: apply_eq skips a band only when it is a peak or shelf band with
\* |gain| < 0.1 dB; lowpass and highpass bands are always applied, with
\* any gain or none, and the bands are applied in list order.
EqSkipsOnlyQuietPeakOrShelf ==
    (pc = "eq_return" /\ logged = <<>>) =>
        LET bands == settings.eq_settings.bands
        IN  stages = SelectSeq([k \in 1 .. Len(bands) |-> k],
                               LAMBDA k : ~QuietPeakOrShelf(bands[k]))

(***************************************************************************)
(* _calculate_spectral_balance on its own.                                 *)
(***************************************************************************)
\* band energies in whole units: bass, mid and brilliance vary, and the
\* four other bands share one value
BandEnergies ==
    {[b \in BandNames |->
         CASE b = "bass" -> e[1]
           [] b = "mid" -> e[2]
           [] b = "brilliance" -> e[3]
           [] OTHER -> o] :
        e \in [1 .. 3 -> 0 .. 4], o \in {0, 2}}

InitBalance ==
    /\ pc = "balance_call"
    /\ request \in {[band_energy |-> e] : e \in BandEnergies}
    /\ CallIdle

BalanceCall ==
    /\ pc = "balance_call"
    /\ IF SpectralBalanceRaises(request.band_energy)
       THEN /\ outcome' = "raised"
            /\ response' = response
       ELSE /\ outcome' = "returned"
            /\ response' = _calculate_spectral_balance(request.band_energy)
    /\ pc' = "balance_return"
    /\ UNCHANGED request
    /\ UNCHANGED callFrame

NextBalance == BalanceCall

SpecBalance == InitBalance /\ [][NextBalance]_vars

\* the band's share of the total energy is below / above so many hundredths
ShareBelow(b, hundredths) ==
    100 * request.band_energy[b]
        < hundredths * SumOver(request.band_energy, BandNames)

ShareAbove(b, hundredths) ==
    100 * request.band_energy[b]
        > hundredths * SumOver(request.band_energy, BandNames)

\* boost below low, cut above high, neutral otherwise
Balanced(b, low, high) ==
    /\ response[b] = "boost" <=> ShareBelow(b, low)
    /\ response[b] = "cut" <=> ShareAbove(b, high)
    /\ response[b] = "neutral" <=> (~ShareBelow(b, low) /\ ~ShareAbove(b, high))

\* C24: the spectral balance names boost, neutral or cut for each of the
\* seven bands: bass by the marks 0.15 / 0.25 of the total energy, mid by
\* 0.20 / 0.35, brilliance by 0.10 / 0.20, and sub_bass, low_mid, high_mid
\* and presence always neutral.
BalanceCoversSevenBands ==
    (pc = "balance_return" /\ outcome = "returned") =>
        /\ DOMAIN response = BandNames
        /\ Balanced("bass", 15, 25)
        /\ Balanced("mid", 20, 35)
        /\ Balanced("brilliance", 10, 20)
        /\ \A b \in {"sub_bass", "low_mid", "high_mid", "presence"} :
               response[b] = "neutral"

(***************************************************************************)
(* _analyze_stereo_imaging on its own, on measures given in hundredths.    *)
(***************************************************************************)
\* measures below, at and above each threshold
StereoMeasures ==
    [stereo_width : {0, 9, 10, 11, 200, 201},
     balance : {-11, -10, 0, 10, 11},
     correlation : {NaN, -100, 69, 70, 95, 96},
     phase_coherence : {79, 80, 100}]

InitImaging ==
    /\ pc = "imaging_call"
    /\ request \in [channels : {1, 2}, stereo : StereoMeasures,
                    raises : {FALSE}]
               \cup [channels : {2}, stereo : StereoMeasures, raises : {TRUE}]
    /\ CallIdle

ImagingCall ==
    /\ pc = "imaging_call"
    /\ response' = _analyze_stereo_imaging(request.channels, request,
                                           request.raises)
    /\ outcome' = "returned"
    /\ pc' = "imaging_return"
    /\ UNCHANGED request
    /\ UNCHANGED callFrame

NextImaging == ImagingCall

SpecImaging == InitImaging /\ [][NextImaging]_vars

\* the recommendation was emitted
Emitted(text) ==
    \E i \in 1 .. Len(response.recommendations) :
        response.recommendations[i] = text

\* the measures of a stereo input were taken
StereoMeasured ==
    /\ pc = "imaging_return"
    /\ request.channels = 2
    /\ ~request.raises

\* C25: for stereo input each recommendation is emitted exactly when its
\* threshold holds: narrow iff width < 0.1, overly wide iff width > 2.0,
\* imbalance iff |balance| > 0.1, naming right for balance > 0 and left
\* for balance < 0, phase issue iff correlation < 0.7, very correlated
\* iff correlation > 0.95, alignment issue iff phase_coherence < 0.8;
\* narrow and overly wide never come together, nor do phase issue and
\* very correlated.
StereoRecommendationsByThreshold ==
    StereoMeasured =>
        LET m == request.stereo
            measured == m.correlation # NaN
        IN  /\ Emitted("Very narrow stereo image") <=> m.stereo_width < 10
            /\ Emitted("Overly wide stereo image") <=> m.stereo_width > 200
            /\ Emitted("Stereo imbalance detected - right channel louder")
                   <=> m.balance > 10
            /\ Emitted("Stereo imbalance detected - left channel louder")
                   <=> m.balance < -10
            /\ Emitted("Low stereo correlation")
                   <=> (measured /\ m.correlation < 70)
            /\ Emitted("Very high correlation")
                   <=> (measured /\ m.correlation > 95)
            /\ Emitted("Phase coherence issues detected")
                   <=> m.phase_coherence < 80
            /\ ~(Emitted("Very narrow stereo image")
                 /\ Emitted("Overly wide stereo image"))
            /\ ~(Emitted("Low stereo correlation")
                 /\ Emitted("Very high correlation"))
            /\ Cardinality({response.recommendations[i] :
                               i \in 1 .. Len(response.recommendations)})
                   = Len(response.recommendations)

\* the left channel is louder, the image too wide and the channels out of
\* phase: three recommendations, the imbalance naming left
LeftLouderWideOutOfPhase ==
    /\ StereoMeasured
    /\ request.stereo.balance = -11
    /\ request.stereo.stereo_width = 201
    /\ request.stereo.correlation = 69
    /\ request.stereo.phase_coherence = 80
    /\ response.recommendations =
           <<"Overly wide stereo image",
             "Stereo imbalance detected - left channel louder",
             "Low stereo correlation">>

(***************************************************************************)
(* apply_saturation on its own.                                            *)
(***************************************************************************)
\* every kind, drives below, at and above 1, and mixes from dry to wet
SaturationSettings ==
    [drive : {Rat(1, 2), ROne, RInt(2)},
     type : {"tube", "tape", "soft_clip"},
     mix : {RZero, Rat(3, 10), ROne}]

SaturationInputs ==
    {Mono1D(c) : c \in SeqsOf(Samples, 2)}
    \cup {Array2D(<<l, r>>) : l, r \in SeqsOf(Samples, 1)}

InitSaturation ==
    /\ pc = "saturation_call"
    /\ audio_data \in SaturationInputs
    /\ settings \in {[saturation_settings |-> ss] : ss \in SaturationSettings}
    /\ processed_audio = EmptyBuffer
    /\ gain_reduction = <<>>
    /\ stages = <<>>
    /\ outcome = "none"
    /\ logged = <<>>
    /\ GenreIdle
    /\ OthersIdle
    /\ ServerIdle

SaturationCall ==
    /\ pc = "saturation_call"
    /\ processed_audio' = apply_saturation(audio_data, settings.saturation_settings)
    /\ stages' = Append(stages, "saturation")
    /\ outcome' = "returned"
    /\ pc' = "saturation_return"
    /\ UNCHANGED <<audio_data, settings, gain_reduction, logged, features,
                   genre_scores, prediction>>
    /\ UNCHANGED otherVars
    /\ UNCHANGED serverVars

NextSaturation == SaturationCall

SpecSaturation == InitSaturation /\ [][NextSaturation]_vars

\* the saturated sample of each kind
Wet(x, kind, drive) ==
    CASE kind = "tube" -> _tube_saturation(x, drive)
      [] kind = "tape" -> _tape_saturation(x, drive)
      [] kind = "soft_clip" -> _soft_clipper(x, drive)

\* C26: for every kind, drive and mix m in [0, 1] each output sample is
\* x * (1 - m) + wet(x) * m; with m = 0 the output is the input, and an
\* input sample of 0 stays 0.
SaturationMixesDryAndWet ==
    pc = "saturation_return" =>
        LET ss == settings.saturation_settings
        IN  /\ Len(processed_audio.ch) = Len(audio_data.ch)
            /\ \A c \in 1 .. Len(audio_data.ch) :
                   /\ Len(processed_audio.ch[c]) = Len(audio_data.ch[c])
                   /\ \A i \in 1 .. Len(audio_data.ch[c]) :
                          LET x == audio_data.ch[c][i]
                              y == processed_audio.ch[c][i]
                          IN  /\ y = RAdd(RMul(x, RSub(ROne, ss.mix)),
                                          RMul(Wet(x, ss.type, ss.drive), ss.mix))
                              /\ x = RZero => y = RZero
            /\ ss.mix = RZero => processed_audio = audio_data

\* a fully dry mix of a driven tube stage returns a non-silent input as is
DryMixReturnsInput ==
    /\ pc = "saturation_return"
    /\ settings.saturation_settings.mix = RZero
    /\ settings.saturation_settings.drive = RInt(2)
    /\ settings.saturation_settings.type = "tube"
    /\ audio_data.ch[1][1] = ROne
    /\ processed_audio = audio_data

(***************************************************************************)
(* The web application: the endpoints of api/tracks.py and api/chat.py and *)
(* the Celery tasks of tasks.py, over the database, the upload directory   *)
(* and the task queue.  An endpoint runs from request to response in one   *)
(* step; a task runs in a worker process, one step per database or file    *)
(* operation, and any endpoint or other task may run between two steps.    *)
(***************************************************************************)
\* the uploads accepted and the tasks started in one run of the model
MaxTracks == 2

MaxTasks == 3

\* core/config.py
MAX_FILE_SIZE == 100 * 1024 * 1024

ALLOWED_AUDIO_FORMATS == {".wav", ".mp3", ".flac", ".aiff", ".m4a"}

\* the files a client may send
Uploads ==
    [extension : {".wav", ".m4a", ".exe"},
     size : {1, MAX_FILE_SIZE, MAX_FILE_SIZE + 1}]

\* the track ids a client may name: the ids handed out, and one never used
NamedTrackIds == 1 .. MaxTracks + 1

\* the places in the task queue
TaskIds == 1 .. MaxTasks

\* everything but the state of the web application
engineVars == <<audio_data, settings, processed_audio, gain_reduction,
                stages, outcome, logged, features, genre_scores, prediction,
                track, analysis, progress, cancel_at, louder, heap, arg_ref,
                ret_ref>>

\* db.query(Track).filter(Track.id == track_id).first() finds a row
TrackExists(track_id) == track_id \in DOMAIN database.tracks

\* a new row of the tracks table, with the column defaults
NewTrack ==
    [is_analyzed |-> FALSE, is_processed |-> FALSE, analysis_error |-> "none"]

\* the file of an upload, and the output file mastered_{track.id}_{hash}.wav
UploadedFile(track_id) == [kind |-> "upload", track_id |-> track_id]

MasteredFile(track_id) == [kind |-> "mastered", track_id |-> track_id]

\* processed_file_path of a session without an output file
NoFile == [kind |-> "none", track_id |-> 0]

\* task.delay(track_id, ...)
Delay(task, track_id) ==
    Append(workers, [task |-> task, track_id |-> track_id, pc |-> "queued",
                     loaded_is_processed |-> FALSE, eq_suggested |-> FALSE])

InitServer ==
    /\ pc = "serving"
    /\ database = [tracks |-> <<>>, sessions |-> <<>>, next_id |-> 1]
    /\ files = {}
    /\ workers = <<>>
    /\ ChainIdle
    /\ GenreIdle
    /\ OthersIdle
    /\ stages = <<>>
    /\ logged = <<>>
    /\ outcome = "none"

\* POST /tracks/upload: the two HTTPException(400) are raised inside the
\* try block, whose `except Exception` answers 500
upload_track(file) ==
    /\ pc = "serving"
    /\ request' = [endpoint |-> "upload_track", file |-> file]
    /\ IF file.extension \notin ALLOWED_AUDIO_FORMATS
          \/ file.size > MAX_FILE_SIZE
       THEN /\ response' = [status_code |-> 500]
            /\ UNCHANGED serverVars
       ELSE /\ database.next_id <= MaxTracks
            /\ Len(workers) < MaxTasks
            /\ files' = files \cup {UploadedFile(database.next_id)}
            /\ database' =
                  [database EXCEPT
                      !.tracks = [t \in DOMAIN @ \cup {database.next_id} |->
                                     IF t \in DOMAIN @ THEN @[t] ELSE NewTrack],
                      !.next_id = @ + 1]
            /\ workers' = Delay("analyze_audio_track", database.next_id)
            /\ response' = [status_code |-> 200]
    /\ UNCHANGED <<pc, engineVars>>

\* POST /tracks/{track_id}/master
master_track(track_id) ==
    /\ pc = "serving"
    /\ request' = [endpoint |-> "master_track", track_id |-> track_id]
    /\ IF ~TrackExists(track_id)
       THEN /\ response' = [status_code |-> 404]
            /\ UNCHANGED workers
       ELSE IF ~database.tracks[track_id].is_analyzed
       THEN /\ response' = [status_code |-> 400]
            /\ UNCHANGED workers
       ELSE /\ Len(workers) < MaxTasks
            /\ workers' = Delay("process_mastering", track_id)
            /\ response' = [status_code |-> 200]
    /\ UNCHANGED <<pc, engineVars, database, files>>

\* POST /chat/mastering: as in upload_track the HTTPExceptions are raised
\* inside the try block; adjusts tells whether the AI service returned
\* adjustments, and the request asks for them to be applied
chat_mastering(track_id, adjusts) ==
    /\ pc = "serving"
    /\ request' = [endpoint |-> "chat_mastering", track_id |-> track_id]
    /\ IF ~TrackExists(track_id)
       THEN /\ response' = [status_code |-> 500]
            /\ UNCHANGED workers
       ELSE IF ~database.tracks[track_id].is_analyzed
       THEN /\ response' = [status_code |-> 500]
            /\ UNCHANGED workers
       ELSE IF adjusts
       THEN /\ Len(workers) < MaxTasks
            /\ workers' = Delay("process_ai_adjustment", track_id)
            /\ response' = [status_code |-> 200]
       ELSE /\ response' = [status_code |-> 200]
            /\ UNCHANGED workers
    /\ UNCHANGED <<pc, engineVars, database, files>>

\* the rows of mastering_sessions with this track_id
SessionsOf(track_id) ==
    SelectSeq(database.sessions, LAMBDA row : row.track_id = track_id)

\* DELETE /tracks/{track_id}: the files of the track's sessions, the
\* sessions, the uploaded file and the track row go in one commit
delete_track(track_id) ==
    /\ pc = "serving"
    /\ request' = [endpoint |-> "delete_track", track_id |-> track_id]
    /\ IF ~TrackExists(track_id)
       THEN /\ response' = [status_code |-> 404]
            /\ UNCHANGED <<database, files>>
       ELSE /\ files' = files \ ({SessionsOf(track_id)[k].processed_file_path :
                                     k \in 1 .. Len(SessionsOf(track_id))}
                                 \cup {UploadedFile(track_id)})
            /\ database' =
                  [database EXCEPT
                      !.tracks = [t \in DOMAIN @ \ {track_id} |-> @[t]],
                      !.sessions = SelectSeq(@, LAMBDA row :
                                                   row.track_id # track_id)]
            /\ response' = [status_code |-> 200]
    /\ UNCHANGED <<pc, engineVars, workers>>

\* worker w is at position here of a run of task
At(w, task, here) ==
    /\ w \in DOMAIN workers
    /\ workers[w].task = task
    /\ workers[w].pc = here

\* the worker moves on
Goto(w, there) == [workers EXCEPT ![w].pc = there]

\* the except block of analyze_audio_track: the track is read again and,
\* if it is there, analysis_error is set and committed; the task fails
AnalysisTaskFails(w) ==
    /\ database' =
          IF TrackExists(workers[w].track_id)
          THEN [database EXCEPT
                   !.tracks[workers[w].track_id].analysis_error = "error"]
          ELSE database
    /\ workers' = Goto(w, "failed")

\* analyze_audio_track up to the query of the track
AnalysisTaskQuery(w) ==
    /\ pc = "serving"
    /\ At(w, "analyze_audio_track", "queued")
    /\ IF TrackExists(workers[w].track_id)
       THEN /\ workers' = Goto(w, "analyzing")
            /\ UNCHANGED database
       ELSE AnalysisTaskFails(w)
    /\ UNCHANGED <<pc, engineVars, request, response, files>>

\* analyzer.analyze_track(track.file_path, progress_callback)
AnalysisTaskAnalyze(w, raises) ==
    /\ pc = "serving"
    /\ At(w, "analyze_audio_track", "analyzing")
    /\ IF raises \/ UploadedFile(workers[w].track_id) \notin files
       THEN AnalysisTaskFails(w)
       ELSE /\ workers' = Goto(w, "commit")
            /\ UNCHANGED database
    /\ UNCHANGED <<pc, engineVars, request, response, files>>

\* the results and is_analyzed = True are committed; the UPDATE of a row
\* that is gone fails, and the session cannot be used by the except block
AnalysisTaskCommit(w) ==
    /\ pc = "serving"
    /\ At(w, "analyze_audio_track", "commit")
    /\ IF TrackExists(workers[w].track_id)
       THEN /\ database' =
                  [database EXCEPT
                      !.tracks[workers[w].track_id].is_analyzed = TRUE]
            /\ workers' = Goto(w, "suggest")
       ELSE /\ workers' = Goto(w, "failed")
            /\ UNCHANGED database
    /\ UNCHANGED <<pc, engineVars, request, response, files>>

\* the progress updates, the construction of the AI service and its
\* suggestions, which hold eq_settings or not
AnalysisTaskSuggest(w, raises, eq) ==
    /\ pc = "serving"
    /\ At(w, "analyze_audio_track", "suggest")
    /\ IF raises
       THEN AnalysisTaskFails(w)
       ELSE /\ workers' = [workers EXCEPT
                              ![w].eq_suggested = eq,
                              ![w].pc = IF eq THEN "session" ELSE "finish"]
            /\ UNCHANGED database
    /\ UNCHANGED <<pc, engineVars, request, response, files>>

\* the session with the suggestions is added and committed; an exception
\* is logged and nothing else
AnalysisTaskSession(w, raises) ==
    /\ pc = "serving"
    /\ At(w, "analyze_audio_track", "session")
    /\ database' =
          IF raises THEN database
          ELSE [database EXCEPT
                   !.sessions = Append(@, [track_id |-> workers[w].track_id,
                                           processed_file_path |-> NoFile])]
    /\ workers' = Goto(w, "finish")
    /\ UNCHANGED <<pc, engineVars, request, response, files>>

\* the last progress update, and the return
AnalysisTaskFinish(w, raises) ==
    /\ pc = "serving"
    /\ At(w, "analyze_audio_track", "finish")
    /\ IF raises
       THEN AnalysisTaskFails(w)
       ELSE /\ workers' = Goto(w, "done")
            /\ UNCHANGED database
    /\ UNCHANGED <<pc, engineVars, request, response, files>>

\* process_mastering up to the query of the track
MasteringTaskQuery(w) ==
    /\ pc = "serving"
    /\ At(w, "process_mastering", "queued")
    /\ workers' =
          IF TrackExists(workers[w].track_id)
          THEN [workers EXCEPT
                   ![w].loaded_is_processed =
                       database.tracks[workers[w].track_id].is_processed,
                   ![w].pc = "loading"]
          ELSE Goto(w, "failed")
    /\ UNCHANGED <<pc, engineVars, request, response, database, files>>

\* librosa.load(track.file_path) and the mastering chain
MasteringTaskLoad(w, raises) ==
    /\ pc = "serving"
    /\ At(w, "process_mastering", "loading")
    /\ workers' =
          IF raises \/ UploadedFile(workers[w].track_id) \notin files
          THEN Goto(w, "failed")
          ELSE Goto(w, "writing")
    /\ UNCHANGED <<pc, engineVars, request, response, database, files>>

\* sf.write(output_path, processed_audio, sample_rate)
MasteringTaskWrite(w) ==
    /\ pc = "serving"
    /\ At(w, "process_mastering", "writing")
    /\ files' = files \cup {MasteredFile(workers[w].track_id)}
    /\ workers' = Goto(w, "commit")
    /\ UNCHANGED <<pc, engineVars, request, response, database>>

\* the session row is added, track.is_processed = True and the commit: the
\* track is updated if the flag changes, and the UPDATE of a row that is
\* gone fails the whole commit; the file written before stays
MasteringTaskCommit(w) ==
    /\ pc = "serving"
    /\ At(w, "process_mastering", "commit")
    /\ IF ~workers[w].loaded_is_processed /\ ~TrackExists(workers[w].track_id)
       THEN /\ workers' = Goto(w, "failed")
            /\ UNCHANGED database
       ELSE /\ database' =
                  [database EXCEPT
                      !.sessions =
                          Append(@, [track_id |-> workers[w].track_id,
                                     processed_file_path |->
                                         MasteredFile(workers[w].track_id)]),
                      !.tracks =
                          [t \in DOMAIN @ |->
                              IF t = workers[w].track_id
                              THEN [@[t] EXCEPT !.is_processed = TRUE]
                              ELSE @[t]]]
            /\ workers' = Goto(w, "done")
    /\ UNCHANGED <<pc, engineVars, request, response, files>>

\* process_ai_adjustment: with adjustments it starts process_mastering
AiAdjustmentTask(w, adjusts) ==
    /\ pc = "serving"
    /\ At(w, "process_ai_adjustment", "queued")
    /\ IF ~TrackExists(workers[w].track_id)
       THEN workers' = Goto(w, "failed")
       ELSE IF ~database.tracks[workers[w].track_id].is_analyzed
       THEN workers' = Goto(w, "failed")
       ELSE IF adjusts
       THEN /\ Len(workers) < MaxTasks
            /\ workers' = [Delay("process_mastering", workers[w].track_id)
                              EXCEPT ![w].pc = "done"]
       ELSE workers' = Goto(w, "done")
    /\ UNCHANGED <<pc, engineVars, request, response, database, files>>

NextServer ==
    \/ \E file \in Uploads : upload_track(file)
    \/ \E track_id \in NamedTrackIds : master_track(track_id)
    \/ \E track_id \in NamedTrackIds, adjusts \in BOOLEAN :
          chat_mastering(track_id, adjusts)
    \/ \E track_id \in NamedTrackIds : delete_track(track_id)
    \/ \E w \in TaskIds : AnalysisTaskQuery(w)
    \/ \E w \in TaskIds, raises \in BOOLEAN :
          AnalysisTaskAnalyze(w, raises)
    \/ \E w \in TaskIds : AnalysisTaskCommit(w)
    \/ \E w \in TaskIds, raises \in BOOLEAN, eq \in BOOLEAN :
          AnalysisTaskSuggest(w, raises, eq)
    \/ \E w \in TaskIds, raises \in BOOLEAN :
          AnalysisTaskSession(w, raises)
    \/ \E w \in TaskIds, raises \in BOOLEAN :
          AnalysisTaskFinish(w, raises)
    \/ \E w \in TaskIds : MasteringTaskQuery(w)
    \/ \E w \in TaskIds, raises \in BOOLEAN :
          MasteringTaskLoad(w, raises)
    \/ \E w \in TaskIds : MasteringTaskWrite(w)
    \/ \E w \in TaskIds : MasteringTaskCommit(w)
    \/ \E w \in TaskIds, adjusts \in BOOLEAN :
          AiAdjustmentTask(w, adjusts)

SpecServer == InitServer /\ [][NextServer]_vars

\* C28: after any run of the analyze_audio_track task a track is in exactly
\* one of two outcomes: is_analyzed with no analysis_error, or an
\* analysis_error and not is_analyzed; a failure in a step after the
\* results were committed never leaves both is_analyzed and analysis_error.
AnalysisOutcomeIsOneOfTwo ==
    \A w \in DOMAIN workers :
        (/\ workers[w].task = "analyze_audio_track"
         /\ workers[w].pc \in {"done", "failed"}
         /\ TrackExists(workers[w].track_id)) =>
            LET row == database.tracks[workers[w].track_id]
            IN  \/ row.is_analyzed /\ row.analysis_error = "none"
                \/ ~row.is_analyzed /\ row.analysis_error # "none"

\* the tracks for which delete_track has returned: ids are handed out once
DeletedTracks ==
    {t \in 1 .. database.next_id - 1 : ~TrackExists(t)}

\* C29: once delete_track has returned for a track, no MasteringSession row
\* and no mastered output file of that track exists or is created, in every
\* interleaving with a process_mastering or analyze_audio_track task of the
\* track that was queued or running.
NothingLeftOfDeletedTrack ==
    pc = "serving" =>
        \A t \in DeletedTracks :
            /\ SessionsOf(t) = <<>>
            /\ MasteredFile(t) \notin files

\* C30: upload_track answers a disallowed extension or a size above
\* MAX_FILE_SIZE with 400 and then stores no file, creates no Track and
\* starts no task; chat_mastering answers 404 for an unknown track and 400
\* for a track that is not yet analyzed.
RejectionsAnswered ==
    [][/\ \A file \in Uploads :
              (/\ upload_track(file)
               /\ \/ file.extension \notin ALLOWED_AUDIO_FORMATS
                  \/ file.size > MAX_FILE_SIZE) =>
                  /\ response'.status_code = 400
                  /\ UNCHANGED serverVars
       /\ \A track_id \in NamedTrackIds, adjusts \in BOOLEAN :
              chat_mastering(track_id, adjusts) =>
                  IF ~TrackExists(track_id)
                  THEN response'.status_code = 404
                  ELSE ~database.tracks[track_id].is_analyzed =>
                           response'.status_code = 400]_vars

=============================================================================
